---- MODULE Spec2Model ----
(***************************************************************************)
(* Roman's Rater 4.21: a model of the reconciliation engine, the           *)
(* minimum-premium step of the rating engine, rating-program resolution    *)
(* and the fee/tax engine.  Each engine is a pure function of its          *)
(* arguments; a specification per engine records the last call made       *)
(* (call) and the value it returned (ret).                                 *)
(***************************************************************************)
EXTENDS Integers, Sequences, FiniteSets

VARIABLES call, ret, appState, invoked, dom

vars == <<call, ret, appState, invoked, dom>>

(***************************************************************************)
(* JavaScript values.  A value is a record [t, v]: t is the kind of value  *)
(* and v its payload (the integer of a number, the sign of an infinity).   *)
(***************************************************************************)
Num(n) == [t |-> "number", v |-> n]

NaNv == [t |-> "NaN", v |-> 0]

Infinity == [t |-> "Infinity", v |-> 1]

Undefined == [t |-> "undefined", v |-> 0]

Null == [t |-> "null", v |-> 0]

\* a non-numeric string such as 'invalid'
Str == [t |-> "string", v |-> 0]

\* typeof x === 'number' (NaN and Infinity are numbers to typeof)
TypeofNumber(x) == x.t \in {"number", "NaN", "Infinity"}

\* a number that is neither NaN nor infinite
IsFiniteNumber(x) == x.t = "number"

\* JavaScript truthiness: 0, NaN, null, undefined are falsy
Truthy(x) == \/ x.t \in {"string", "Infinity"}
             \/ x.t = "number" /\ x.v # 0

Abs(n) == IF n < 0 THEN -n ELSE n

\* AppState as main.js constructs it; parsedPolicies is an empty list
InitialAppState ==
    [raterFile |-> Null, taxesFile |-> Null,
     parsedPolicies |-> <<>>, currentPolicyIndex |-> 0,
     cwTables |-> Null, ssTables |-> Null, attributeBands |-> Null,
     stateTaxRules |-> Null, alSubtotal |-> Null, feesAndTaxes |-> Null,
     factorTrace |-> Null, reconciliation |-> Null]

\* the application as loaded, before any handler has run; invoked lists the
\* engines the latest Recalculate run has called
\* the page as it is served: the Load Tables button starts disabled and
\* there is no policy selector
DocumentAtLoad == [loadTablesDisabled |-> TRUE, policySelector |-> FALSE]

ApplicationAtLoad ==
    appState = InitialAppState /\ invoked = <<>> /\ dom = DocumentAtLoad

(***************************************************************************)
(* Bounds of the model.                                                    *)
(***************************************************************************)
\* amounts are 0..MaxAmt and DefaultTolerance..DefaultTolerance+MaxAmt
MaxAmt == 1

\* caller-supplied tolerances are 0..MaxTol and DefaultTolerance
MaxTol == 1

(***************************************************************************)
(* Reconciliation engine (ui.js, reconcileTotals and its helpers).         *)
(***************************************************************************)
DefaultTolerance == 500

\* the nine components reconcileTotals compares
Components == {"alSubtotal", "policyFee", "uwFee", "brokerFee", "slt",
               "stamp", "fire", "other", "total"}

\* computed - pdf on JavaScript numbers
calculateDelta(computed, pdf) ==
    IF computed.t = "NaN" \/ pdf.t = "NaN" THEN NaNv
    ELSE IF computed.t = "Infinity" /\ pdf.t = "Infinity"
         THEN (IF computed.v = pdf.v THEN NaNv ELSE computed)
    ELSE IF computed.t = "Infinity" THEN computed
    ELSE IF pdf.t = "Infinity" THEN [t |-> "Infinity", v |-> -pdf.v]
    ELSE Num(computed.v - pdf.v)

isWithinTolerance_strict(absoluteDelta, tolerance) == absoluteDelta < tolerance

isWithinTolerance(absoluteDelta, tolerance) == absoluteDelta <= tolerance

\* the exact quotient n / d of two integers
Rat(n, d) == [n |-> n, d |-> d]

\* the percent difference of two finite numbers
calculatePercentDiff(computed, pdf) ==
    IF pdf = 0 THEN (IF computed = 0 THEN Rat(0, 1) ELSE Rat(100, 1))
    ELSE Rat(Abs(computed - pdf) * 100, Abs(pdf))

\* options.tolerance || 500
EffectiveTolerance(options) ==
    IF Truthy(options.tolerance) THEN options.tolerance.v ELSE DefaultTolerance

\* typeof obj[key] === 'number' ? obj[key] : null
NumberOrNull(obj, key) == IF TypeofNumber(obj.f[key]) THEN obj.f[key] ELSE Null

\* the delta the loop computes for one component; Undefined when the loop
\* skips the component (both sides missing) and stores nothing
ComponentDelta(computed, pdfExtracted, key) ==
    LET computedValue == NumberOrNull(computed, key)
        pdfValue == NumberOrNull(pdfExtracted, key)
    IN  IF computedValue = Null /\ pdfValue = Null THEN Undefined
        ELSE IF computedValue # Null /\ pdfValue # Null
             THEN calculateDelta(computedValue, pdfValue)
        ELSE Null

\* delta !== null && delta !== 0 for a component the loop did not skip
IsDiscrepancy(delta) == delta.t \notin {"undefined", "null"} /\ delta # Num(0)

ReconcileBase(options) ==
    [status |-> "UNKNOWN", tolerance |-> EffectiveTolerance(options),
     componentMismatches |-> 0, errors |-> <<>>, warnings |-> <<>>,
     delta |-> [k \in Components |-> Undefined], percentDiff |-> Rat(0, 1)]

reconcileTotals(computed, pdfExtracted, options) ==
    LET result == ReconcileBase(options)
    IN  IF ~computed.obj
        THEN [result EXCEPT !.errors = <<"Invalid computed data">>,
                            !.status = "ERROR"]
        ELSE IF ~pdfExtracted.obj
        THEN [result EXCEPT !.status = "NO_PDF_DATA",
                            !.warnings = <<"No PDF data available for comparison">>]
        ELSE
        LET delta == [k \in Components |-> ComponentDelta(computed, pdfExtracted, k)]
            mismatches == Cardinality({k \in Components : IsDiscrepancy(delta[k])})
            looped == [result EXCEPT !.delta = delta,
                                     !.componentMismatches = mismatches]
            totalDelta == delta["total"]
            \* if (computed.total && pdfExtracted.total) on two finite numbers
            percentDiff ==
                IF Truthy(computed.f["total"]) /\ Truthy(pdfExtracted.f["total"])
                THEN calculatePercentDiff(computed.f["total"].v,
                                          pdfExtracted.f["total"].v)
                ELSE result.percentDiff
        IN  IF totalDelta.t \in {"null", "undefined"}
            THEN [looped EXCEPT !.status = "NO_TOTAL",
                                !.warnings = <<"Total not available for comparison">>]
            ELSE IF ~IsFiniteNumber(totalDelta)
            THEN [looped EXCEPT !.errors = <<"Invalid total value">>,
                                !.status = "ERROR"]
            ELSE IF isWithinTolerance(Abs(totalDelta.v), looped.tolerance)
            THEN (IF mismatches = 0
                  THEN [looped EXCEPT !.status = "PASS", !.percentDiff = percentDiff]
                  ELSE [looped EXCEPT !.status = "WARN", !.percentDiff = percentDiff,
                            !.warnings = <<"Total within tolerance but component discrepancies detected">>])
            ELSE [looped EXCEPT !.status = "FAIL", !.percentDiff = percentDiff]

(***************************************************************************)
(* Inputs of the reconciliation calls.                                     *)
(***************************************************************************)
Amounts == (0..MaxAmt) \cup {DefaultTolerance + k : k \in 0..MaxAmt}

TotalValues == {Undefined, Null, Str, NaNv, Infinity} \cup {Num(n) : n \in Amounts}

ComponentValues == {Undefined} \cup {Num(n) : n \in 0..MaxAmt}

ToleranceOptions == {Undefined} \cup {Num(n) : n \in 0..MaxTol} \cup {Num(DefaultTolerance)}

\* an object holding a total and at most one other component
MoneyObject(total, key, value) ==
    [obj |-> TRUE,
     f |-> [k \in Components |-> IF k = "total" THEN total
                                 ELSE IF k = key THEN value ELSE Undefined]]

\* null passed where an object is expected
NoObject == [obj |-> FALSE, f |-> [k \in Components |-> Undefined]]

\* ret before the call has returned
Pending == [status |-> "pending"]

ReconcileCall(computed, pdf, options) ==
    [fn |-> "reconcileTotals", computed |-> computed, pdf |-> pdf,
     options |-> options]

ReconcileCalls ==
    {ReconcileCall(MoneyObject(ct, key, cv), MoneyObject(pt, key, pv),
                   [tolerance |-> tol]) :
        ct \in TotalValues, pt \in TotalValues, tol \in ToleranceOptions,
        key \in Components \ {"total"}, cv \in ComponentValues,
        pv \in ComponentValues}
    \cup
    {ReconcileCall(NoObject, MoneyObject(pt, "alSubtotal", Undefined),
                   [tolerance |-> tol]) :
        pt \in TotalValues, tol \in ToleranceOptions}
    \cup
    {ReconcileCall(MoneyObject(ct, "alSubtotal", Undefined), NoObject,
                   [tolerance |-> tol]) :
        ct \in TotalValues, tol \in ToleranceOptions}

InitReconcile == call \in ReconcileCalls /\ ret = Pending /\ ApplicationAtLoad

\* the call returns
ReconcileTotals ==
    /\ call.fn = "reconcileTotals"
    /\ ret = Pending
    /\ ret' = reconcileTotals(call.computed, call.pdf, call.options)
    /\ UNCHANGED <<call, appState, invoked, dom>>

NextReconcile == ReconcileTotals

SpecReconcile == InitReconcile /\ [][NextReconcile]_vars

(***************************************************************************)
(* Claims about the reconciliation engine.                                 *)
(***************************************************************************)
Returned == ret # Pending

\* a returned reconcileTotals call on two objects with finite numeric totals
NumericTotalsCall ==
    /\ Returned
    /\ call.fn = "reconcileTotals"
    /\ call.computed.obj /\ call.pdf.obj
    /\ IsFiniteNumber(call.computed.f["total"])
    /\ IsFiniteNumber(call.pdf.f["total"])

TotalDeltaOfCall == call.computed.f["total"].v - call.pdf.f["total"].v

\* a component other than the total, numeric on both sides, whose values differ
OtherComponentDiffers ==
    \E k \in Components \ {"total"} :
        /\ TypeofNumber(call.computed.f[k]) /\ TypeofNumber(call.pdf.f[k])
        /\ call.computed.f[k] # call.pdf.f[k]

\* C1 (as claimed): with numeric totals and a caller-supplied tolerance T, the
\* status is PASS whenever |computed.total - pdf.total| <= T and no component
\* other than the total differs, a non-zero difference included.
C1_PassWithinTolerance ==
    (/\ NumericTotalsCall
     /\ call.options.tolerance.t = "number"
     /\ Abs(TotalDeltaOfCall) <= call.options.tolerance.v
     /\ ~OtherComponentDiffers)
    => ret.status = "PASS"

C3_ErrorOnBadComputedTotal ==
    (/\ Returned
     /\ call.fn = "reconcileTotals"
     /\ call.computed.obj /\ call.pdf.obj
     /\ IsFiniteNumber(call.pdf.f["total"])
     /\ call.computed.f["total"].t \in {"undefined", "string", "NaN"})
    => (ret.status = "ERROR" /\ ret.errors # <<>>)

(***************************************************************************)
(* Rating engine: minimum premiums (al-engine.js, applyMinimumPremium).    *)
(***************************************************************************)
\* most units of a policy
MaxUnits == 2

\* a unit premium as calculateALPremium pushes it: no minimumApplied tag
Unit(premium) == [premium |-> premium, minimumApplied |-> "none"]

RECURSIVE SumPremiums_skipFirst(_)
SumPremiums_skipFirst(units) ==
    IF Len(units) <= 1 THEN 0
    ELSE units[Len(units)].premium + SumPremiums_skipFirst(SubSeq(units, 1, Len(units) - 1))

\* perUnit.reduce((sum, unit) => sum + unit.premium, 0)
RECURSIVE SumPremiums(_)
SumPremiums(units) ==
    IF units = <<>> THEN 0
    ELSE units[Len(units)].premium + SumPremiums(SubSeq(units, 1, Len(units) - 1))

\* m && typeof m === 'number' && m > 0
IsPositiveNumber(m) == Truthy(m) /\ TypeofNumber(m) /\ m.v > 0

\* the per-unit map of applyMinimumPremium
ApplyPerUnitMinimum(perUnit, minPerUnit) ==
    IF IsPositiveNumber(minPerUnit)
    THEN [i \in DOMAIN perUnit |->
            IF perUnit[i].premium < minPerUnit.v
            THEN [premium |-> minPerUnit.v, minimumApplied |-> "per-unit"]
            ELSE perUnit[i]]
    ELSE perUnit

\* the bug of summing before the per-unit floor is applied
applyMinimumPremium_sumFirst(perUnit, minPremiums) ==
    LET adjusted == ApplyPerUnitMinimum(perUnit, minPremiums.perUnit)
        subtotal == SumPremiums(perUnit)
        policy == IsPositiveNumber(minPremiums.perPolicy)
                  /\ subtotal < minPremiums.perPolicy.v
    IN  [perUnit |-> adjusted,
         subtotal |-> IF policy THEN minPremiums.perPolicy.v ELSE subtotal,
         minimumApplied |-> IF policy THEN "policy" ELSE "null"]

applyMinimumPremium(perUnit, minPremiums) ==
    IF ~minPremiums.obj
    THEN [perUnit |-> perUnit, subtotal |-> SumPremiums(perUnit),
          minimumApplied |-> "null"]
    ELSE
    LET adjusted == ApplyPerUnitMinimum(perUnit, minPremiums.perUnit)
        subtotal == SumPremiums(adjusted)
        policy == IsPositiveNumber(minPremiums.perPolicy)
                  /\ subtotal < minPremiums.perPolicy.v
    IN  [perUnit |-> adjusted,
         subtotal |-> IF policy THEN minPremiums.perPolicy.v ELSE subtotal,
         minimumApplied |->
            IF policy THEN "policy"
            ELSE IF \E i \in DOMAIN adjusted : adjusted[i].minimumApplied # "none"
                 THEN "per-unit"
            ELSE "null"]

(***************************************************************************)
(* Inputs of the minimum-premium calls.                                    *)
(***************************************************************************)
PremiumValues == {200, 250, 300, 600}

MinPerUnitValues == {Undefined, Str, Num(0), Num(250)}

MinPerPolicyValues == {Undefined, Str, Num(0), Num(550), Num(1000)}

UnitLists ==
    UNION {[1..n -> {Unit(p) : p \in PremiumValues}] : n \in 0..MaxUnits}

\* minPremiums: null, or an object {perUnit, perPolicy}
MinPremiumConfigs ==
    {[obj |-> FALSE, perUnit |-> Undefined, perPolicy |-> Undefined]}
    \cup {[obj |-> TRUE, perUnit |-> u, perPolicy |-> p] :
            u \in MinPerUnitValues, p \in MinPerPolicyValues}

MinPremiumCalls ==
    {[fn |-> "applyMinimumPremium", perUnit |-> units, minPremiums |-> m] :
        units \in UnitLists, m \in MinPremiumConfigs}

InitMinPremium == call \in MinPremiumCalls /\ ret = Pending /\ ApplicationAtLoad

\* the call returns
ApplyMinimumPremium ==
    /\ call.fn = "applyMinimumPremium"
    /\ ret = Pending
    /\ ret' = applyMinimumPremium(call.perUnit, call.minPremiums)
    /\ UNCHANGED <<call, appState, invoked, dom>>

NextMinPremium == ApplyMinimumPremium

SpecMinPremium == InitMinPremium /\ [][NextMinPremium]_vars

(***************************************************************************)
(* Claims about minimum premiums.                                          *)
(***************************************************************************)
Max(a, b) == IF a >= b THEN a ELSE b

\* the floor a configured minimum imposes: none unless a positive number
FloorOf(m) == IF m.t = "number" /\ m.v > 0 THEN m.v ELSE 0

\* the unit premiums of the call, each raised to the per-unit floor
FlooredPremiums ==
    [i \in DOMAIN call.perUnit |->
        Max(call.perUnit[i].premium, FloorOf(call.minPremiums.perUnit))]

RECURSIVE SumSeq(_)
SumSeq(s) == IF s = <<>> THEN 0 ELSE s[1] + SumSeq(Tail(s))

MinPremiumReturned ==
    Returned /\ call.fn = "applyMinimumPremium" /\ call.minPremiums.obj

\* the sum of the unit premiums returned
ReturnedUnitSum == SumSeq([i \in DOMAIN ret.perUnit |-> ret.perUnit[i].premium])

\* the call of the spec's example: [200, 300] under {perUnit: 250, perPolicy: 1000}
ExampleMinPremiumCall ==
    /\ MinPremiumReturned
    /\ call.perUnit = <<Unit(200), Unit(300)>>
    /\ call.minPremiums.perUnit = Num(250)
    /\ call.minPremiums.perPolicy = Num(1000)

MaxStateLen == 3

\* the characters of a state string: two letters in both cases, and a blank
StateChars == {"A", "L", "a", "l", " "}

ToUpperChar(c) ==
    CASE c = "a" -> "A" [] c = "l" -> "L" [] c = "n" -> "N" [] c = "j" -> "J"
      [] OTHER -> c

\* String.prototype.toUpperCase
toUpperCase(s) == [i \in DOMAIN s |-> ToUpperChar(s[i])]

RECURSIVE TrimStart(_)
TrimStart(s) == IF s # <<>> /\ s[1] = " " THEN TrimStart(Tail(s)) ELSE s

RECURSIVE TrimEnd(_)
TrimEnd(s) ==
    IF s # <<>> /\ s[Len(s)] = " " THEN TrimEnd(SubSeq(s, 1, Len(s) - 1)) ELSE s

\* String.prototype.trim
trim(s) == TrimEnd(TrimStart(s))

\* a state argument: a string, or null/undefined
StateString(s) == [t |-> "string", s |-> s]

NoState == [t |-> "undefined", s |-> <<>>]

\* a rating table argument: null, an object without bodyClass, or a table
\* whose bodyClass is keyed by the state codes in keys
NullTable == [kind |-> "null", keys |-> {}]

MalformedTable == [kind |-> "malformed", keys |-> {}]

RatingTable(keys) == [kind |-> "table", keys |-> keys]

\* table && table.bodyClass && typeof table.bodyClass === 'object'
TableValid(table) == table.kind = "table"

ResolveBase ==
    [program |-> "null", confidence |-> "none", reason |-> "",
     errors |-> <<>>, warnings |-> <<>>]

resolveProgram_noNormalize(state, cwTable, ssTable) ==
    LET result == ResolveBase
        cwCovers == TableValid(cwTable) /\ state.s \in cwTable.keys
        ssCovers == TableValid(ssTable) /\ state.s \in ssTable.keys
    IN  IF state.t # "string" \/ trim(state.s) = <<>>
        THEN [result EXCEPT !.errors = <<"State code is required">>]
        ELSE IF cwCovers /\ ssCovers
        THEN [result EXCEPT !.program = "CW", !.confidence = "medium",
                            !.reason = "covered by both",
                            !.warnings = <<"State covered by both programs - using CW by default">>]
        ELSE IF cwCovers
        THEN [result EXCEPT !.program = "CW", !.confidence = "high",
                            !.reason = "covered by CW only"]
        ELSE IF ssCovers
        THEN [result EXCEPT !.program = "SS", !.confidence = "high",
                            !.reason = "covered by SS only"]
        ELSE [result EXCEPT !.errors = <<"State not covered by CW or SS tables">>]

resolveProgram(state, cwTable, ssTable) ==
    LET result == ResolveBase
    IN  IF state.t # "string" \/ trim(state.s) = <<>>
        THEN [result EXCEPT !.errors = <<"State code is required">>]
        ELSE
        LET normalizedState == toUpperCase(trim(state.s))
            cwValid == TableValid(cwTable)
            ssValid == TableValid(ssTable)
            cwCovers == cwValid /\ normalizedState \in cwTable.keys
            ssCovers == ssValid /\ normalizedState \in ssTable.keys
        IN  IF ~cwValid /\ ~ssValid
            THEN [result EXCEPT !.errors = <<"No valid rating tables available">>]
            ELSE IF cwCovers /\ ssCovers
            THEN [result EXCEPT !.program = "CW", !.confidence = "medium",
                                !.reason = "covered by both",
                                !.warnings = <<"State covered by both programs - using CW by default">>]
            ELSE IF cwCovers
            THEN [result EXCEPT !.program = "CW", !.confidence = "high",
                                !.reason = "covered by CW only"]
            ELSE IF ssCovers
            THEN [result EXCEPT !.program = "SS", !.confidence = "high",
                                !.reason = "covered by SS only"]
            ELSE [result EXCEPT !.reason = "not covered",
                                !.errors = <<"State not covered by CW or SS tables">>]

\* program is 'CW' or 'SS' here: cwTable || null, ssTable || null
getProgramTable(program, cwTable, ssTable) ==
    IF program = "CW" THEN cwTable
    ELSE IF program = "SS" THEN ssTable
    ELSE NullTable

\* the substrings detectProgramFromPDF looks for in the lower-cased name
CarrierNames ==
    {"", "Generic Insurance", "Cover Whale Insurance", "CoverWhale Inc",
     "Standard & Surplus Lines Insurance Company", "S&S Mutual",
     "Standard Cover Whale Surplus"}

\* carrierName.toLowerCase().includes(needle), tabulated for CarrierNames
Includes(carrierName, needle) ==
    needle \in
      CASE carrierName = "Cover Whale Insurance" -> {"cover whale"}
        [] carrierName = "CoverWhale Inc" -> {"coverwhale"}
        [] carrierName = "Standard & Surplus Lines Insurance Company" ->
              {"standard", "surplus", "standard & surplus"}
        [] carrierName = "S&S Mutual" -> {"s&s"}
        [] carrierName = "Standard Cover Whale Surplus" ->
              {"standard", "surplus", "cover whale"}
        [] OTHER -> {}

detectProgramFromPDF(policyData) ==
    LET result == [program |-> "null", confidence |-> "low", source |-> "pdf_hint"]
        carrierName == policyData.carrierName
    IN  IF ~policyData.obj THEN result
        ELSE IF Includes(carrierName, "cover whale") \/ Includes(carrierName, "coverwhale")
        THEN [result EXCEPT !.program = "CW", !.confidence = "high"]
        ELSE IF Includes(carrierName, "standard") /\ Includes(carrierName, "surplus")
        THEN [result EXCEPT !.program = "SS", !.confidence = "high"]
        ELSE IF Includes(carrierName, "standard & surplus") \/ Includes(carrierName, "s&s")
        THEN [result EXCEPT !.program = "SS", !.confidence = "high"]
        ELSE result

HybridBase ==
    [program |-> "null", confidence |-> "none", source |-> "null",
     reason |-> "", warnings |-> <<>>]

detectProgramHybrid(policyData, cwTable, ssTable) ==
    LET result == HybridBase
    IN  IF ~policyData.obj
        THEN [result EXCEPT !.warnings = <<"No policy data provided">>]
        ELSE
        LET state == policyData.state
            pdfHint == detectProgramFromPDF(policyData)
            stateCoverage == resolveProgram(state, cwTable, ssTable)
            hinted == pdfHint.confidence = "high" /\ pdfHint.program # "null"
            hintTable == getProgramTable(pdfHint.program, cwTable, ssTable)
            \* hintTable && hintTable.bodyClass && state in hintTable.bodyClass
            hintCovers == /\ TableValid(hintTable)
                          /\ state.t = "string"
                          /\ state.s \in hintTable.keys
            warned == IF hinted /\ ~hintCovers
                      THEN <<"PDF hint mismatch: state not covered. Using state coverage instead.">>
                      ELSE <<>>
        IN  IF hinted /\ hintCovers
            THEN [result EXCEPT !.program = pdfHint.program, !.confidence = "high",
                                !.source = "pdf_hint", !.reason = "hint and coverage"]
            ELSE IF stateCoverage.program # "null"
            THEN [result EXCEPT !.program = stateCoverage.program,
                                !.confidence = stateCoverage.confidence,
                                !.source = "state_coverage",
                                !.reason = stateCoverage.reason,
                                !.warnings = warned \o stateCoverage.warnings]
            ELSE [result EXCEPT !.reason = "Unable to determine program from PDF or state coverage",
                                !.warnings = warned \o <<"No valid program detected">>]

(***************************************************************************)
(* Inputs of the program-resolution calls.                                 *)
(***************************************************************************)
StateStrings == UNION {[1..n -> StateChars] : n \in 0..MaxStateLen}

StateArguments == {NoState} \cup {StateString(s) : s \in StateStrings}

\* the state codes the loaded tables may be keyed by (ingestion upper-cases)
TableStates == {<<"A", "L">>, <<"L", "A">>}

Tables == {NullTable, MalformedTable} \cup {RatingTable(k) : k \in SUBSET TableStates}

ResolveCalls ==
    {[fn |-> "resolveProgram", state |-> st, cwTable |-> cw, ssTable |-> ss] :
        st \in StateArguments, cw \in Tables, ss \in Tables}

\* policyData: null (or without policy), or a policy with carrierName and state
PolicyArguments ==
    {[obj |-> FALSE, carrierName |-> "", state |-> NoState]}
    \cup {[obj |-> TRUE, carrierName |-> c, state |-> st] :
            c \in CarrierNames, st \in StateArguments}

HybridCalls ==
    {[fn |-> "detectProgramHybrid", policyData |-> pd, cwTable |-> cw, ssTable |-> ss] :
        pd \in PolicyArguments, cw \in Tables \ {MalformedTable},
        ss \in Tables \ {MalformedTable}}

InitResolve == call \in ResolveCalls /\ ret = Pending /\ ApplicationAtLoad

\* the call returns
ResolveProgram ==
    /\ call.fn = "resolveProgram"
    /\ ret = Pending
    /\ ret' = resolveProgram(call.state, call.cwTable, call.ssTable)
    /\ UNCHANGED <<call, appState, invoked, dom>>

NextResolve == ResolveProgram

SpecResolve == InitResolve /\ [][NextResolve]_vars

InitHybrid == call \in HybridCalls /\ ret = Pending /\ ApplicationAtLoad

\* the call returns
DetectProgramHybrid ==
    /\ call.fn = "detectProgramHybrid"
    /\ ret = Pending
    /\ ret' = detectProgramHybrid(call.policyData, call.cwTable, call.ssTable)
    /\ UNCHANGED <<call, appState, invoked, dom>>

NextHybrid == DetectProgramHybrid

SpecHybrid == InitHybrid /\ [][NextHybrid]_vars

(***************************************************************************)
(* Claims about rating-program resolution.                                 *)
(***************************************************************************)
\* a table covers a state: the table is well formed and holds the state's
\* code, letter case and surrounding blanks of the state ignored
Covers(table, state) ==
    /\ table.kind = "table"
    /\ state.t = "string"
    /\ toUpperCase(trim(state.s)) \in table.keys

\* C6: a state covered by both tables resolves to CW, medium, with a warning;
\* a state covered by exactly one table to that program, high; a state covered
\* by neither to no program, confidence none, with an error.
C6_ResolveByCoverage ==
    (Returned /\ call.fn = "resolveProgram") =>
        LET cw == Covers(call.cwTable, call.state)
            ss == Covers(call.ssTable, call.state)
        IN  /\ (cw /\ ss) =>
                 /\ ret.program = "CW" /\ ret.confidence = "medium"
                 /\ ret.warnings # <<>>
            /\ (cw /\ ~ss) => (ret.program = "CW" /\ ret.confidence = "high")
            /\ (ss /\ ~cw) => (ret.program = "SS" /\ ret.confidence = "high")
            /\ (~cw /\ ~ss) =>
                 /\ ret.program = "null" /\ ret.confidence = "none"
                 /\ ret.errors # <<>>

\* C6 witness: a lower-case, padded state covered by both tables has been
\* resolved to CW with confidence medium
C6_Witness ==
    /\ Returned /\ call.fn = "resolveProgram"
    /\ call.state = StateString(<<" ", "a", "l">>)
    /\ Covers(call.cwTable, call.state) /\ Covers(call.ssTable, call.state)
    /\ ret.program = "CW" /\ ret.confidence = "medium"

\* the hint detectProgramFromPDF gives for the call's policy
HintOfCall == detectProgramFromPDF(call.policyData)

\* C7 (as claimed): with a high-confidence hint whose table covers the state
\* (case and blanks ignored) the hinted program is returned with source
\* 'pdf_hint' and confidence 'high'; when the hinted table does not cover the
\* state a mismatch warning is recorded and resolveProgram's result is returned
\* with source 'state_coverage'.  The second half is stated for the states
\* resolveProgram finds a program for.
C7_HintWinsWhenCovered ==
    (/\ Returned /\ call.fn = "detectProgramHybrid" /\ call.policyData.obj
     /\ HintOfCall.confidence = "high")
    =>
    LET hintTable == getProgramTable(HintOfCall.program, call.cwTable, call.ssTable)
        coverage == resolveProgram(call.policyData.state, call.cwTable, call.ssTable)
    IN  /\ Covers(hintTable, call.policyData.state) =>
             /\ ret.program = HintOfCall.program
             /\ ret.source = "pdf_hint"
             /\ ret.confidence = "high"
        /\ (~Covers(hintTable, call.policyData.state) /\ coverage.program # "null") =>
             /\ ret.warnings # <<>>
             /\ ret.program = coverage.program
             /\ ret.confidence = coverage.confidence
             /\ ret.source = "state_coverage"

(***************************************************************************)
(* Fee and tax engine (calculateFeesAndTaxes and its helpers).             *)
(* Rates are held in basis points: a rate r is r / RateScale.              *)
(***************************************************************************)
RateScale == 10000

DefaultPolicyFeeStd == 250

DefaultPolicyFeeNJ == 275

DefaultUwFeeNew == 150

DefaultUwFeeRen == 100

\* Math.round of the rational n / d, d > 0
MathRound(n, d) == (2 * n + d) \div (2 * d)

\* roundToCents of the rational n / d: a fractional part within 0.0001 of one
\* half goes to the floor when the floor is even and to the ceiling otherwise
roundToCents(n, d) ==
    LET floor == n \div d
        r == n % d
        ceil == IF r = 0 THEN floor ELSE floor + 1
    IN  IF Abs(2 * r - d) * 5000 < d
        THEN (IF floor % 2 = 0 THEN floor ELSE ceil)
        ELSE MathRound(n, d)

\* x || dflt on a fee of the configuration
FeeOrDefault(x, dflt) == IF Truthy(x) THEN x.v ELSE dflt

\* taxRules.uwPolicyFees || {250, 275, 150, 100}
UwPolicyFeesOf(taxRules) ==
    IF taxRules.uwPolicyFees.obj THEN taxRules.uwPolicyFees
    ELSE [obj |-> TRUE, policyFeeStd |-> Num(DefaultPolicyFeeStd),
          policyFeeNJ |-> Num(DefaultPolicyFeeNJ),
          uwFeeNew |-> Num(DefaultUwFeeNew), uwFeeRen |-> Num(DefaultUwFeeRen)]

\* (input.state || '').trim().toUpperCase()
NormalizedFeeState(state) ==
    IF state.t = "string" THEN toUpperCase(trim(state.s)) ELSE <<>>

PolicyFeeOf(state, uwPolicyFees) ==
    IF state = <<"N", "J">>
    THEN FeeOrDefault(uwPolicyFees.policyFeeNJ, DefaultPolicyFeeNJ)
    ELSE FeeOrDefault(uwPolicyFees.policyFeeStd, DefaultPolicyFeeStd)

\* (input.policyType || 'new').toLowerCase() === 'renewal'
IsRenewal(policyType) == policyType \in {"renewal", "Renewal"}

UwFeeOf(policyType, uwPolicyFees) ==
    IF IsRenewal(policyType)
    THEN FeeOrDefault(uwPolicyFees.uwFeeRen, DefaultUwFeeRen)
    ELSE FeeOrDefault(uwPolicyFees.uwFeeNew, DefaultUwFeeNew)

\* typeof brokerFee === 'number' ? Math.max(0, Math.round(brokerFee)) : 0
BrokerFeeOf(brokerFee) ==
    IF brokerFee.t = "number" THEN (IF brokerFee.v < 0 THEN 0 ELSE brokerFee.v) ELSE 0

\* taxRules.taxable || {policy: true, uw: true, broker: false}
TaxableOf(taxRules) ==
    IF taxRules.taxable.obj THEN taxRules.taxable
    ELSE [obj |-> TRUE, policy |-> TRUE, uw |-> TRUE, broker |-> FALSE]

calculateTaxableBase(components, taxable) ==
    components.alSubtotal
    + (IF taxable.policy THEN components.policyFee ELSE 0)
    + (IF taxable.uw THEN components.uwFee ELSE 0)
    + (IF taxable.broker THEN components.brokerFee ELSE 0)

PercentageTax_ignoreAdmitted(isAdmitted, taxableBase, rate) ==
    IF rate # 0 THEN roundToCents(taxableBase * rate, RateScale) ELSE 0

\* slt and stamp: !isAdmitted && rate ? roundToCents(taxableBase * rate) : 0
PercentageTax(isAdmitted, taxableBase, rate) ==
    IF ~isAdmitted /\ rate # 0
    THEN roundToCents(taxableBase * rate, RateScale)
    ELSE 0

\* fire and other: a percentage of the taxable base or a flat amount
RuleFee(rule, taxableBase) ==
    IF rule.type = "none" THEN 0
    ELSE IF rule.type = "percentage"
    THEN roundToCents(taxableBase * rule.value, RateScale)
    ELSE rule.value

TotalOf_withoutOther(r) ==
    r.alSubtotal + r.policyFee + r.uwFee + r.brokerFee + r.slt + r.stamp + r.fire

TotalOf(r) ==
    r.alSubtotal + r.policyFee + r.uwFee + r.brokerFee + r.slt + r.stamp
    + r.fire + r.other

FeesBase ==
    [alSubtotal |-> 0, policyFee |-> 0, uwFee |-> 0, brokerFee |-> 0,
     taxableBase |-> 0, slt |-> 0, stamp |-> 0, fire |-> 0, other |-> 0,
     total |-> 0, errors |-> <<>>, warnings |-> <<>>]

calculateFeesAndTaxes(input, taxRules) ==
    LET result == FeesBase
    IN  IF ~input.obj \/ input.alSubtotal.t # "number"
        THEN [result EXCEPT !.errors = <<"Invalid AL subtotal">>]
        ELSE IF ~taxRules.obj
        THEN [result EXCEPT !.errors = <<"Tax rules not available for this state">>,
                            !.alSubtotal = input.alSubtotal.v,
                            !.total = input.alSubtotal.v]
        ELSE
        LET alSubtotal == IF input.alSubtotal.v < 0 THEN 0 ELSE input.alSubtotal.v
            state == NormalizedFeeState(input.state)
            uwPolicyFees == UwPolicyFeesOf(taxRules)
            policyFee == PolicyFeeOf(state, uwPolicyFees)
            uwFee == UwFeeOf(input.policyType, uwPolicyFees)
            brokerFee == BrokerFeeOf(input.brokerFee)
            taxable == TaxableOf(taxRules)
            taxableBase == calculateTaxableBase(
                [alSubtotal |-> alSubtotal, policyFee |-> policyFee,
                 uwFee |-> uwFee, brokerFee |-> brokerFee], taxable)
            isAdmitted == input.isAdmitted = "true"
            fees == [result EXCEPT
                       !.alSubtotal = alSubtotal, !.policyFee = policyFee,
                       !.uwFee = uwFee, !.brokerFee = brokerFee,
                       !.taxableBase = taxableBase,
                       !.slt = PercentageTax(isAdmitted, taxableBase, taxRules.slt_rate),
                       !.stamp = PercentageTax(isAdmitted, taxableBase, taxRules.stamp_rate),
                       !.fire = RuleFee(taxRules.fire, taxableBase),
                       !.other = RuleFee(taxRules.other, taxableBase)]
        IN  [fees EXCEPT
               !.total = TotalOf(fees),
               !.warnings = IF isAdmitted
                            THEN <<"Admitted policy: SLT and Stamp fees set to $0">>
                            ELSE <<>>]

(***************************************************************************)
(* Inputs of the fee calls.                                                *)
(***************************************************************************)
FeeStates ==
    {NoState, StateString(<<" ", "n", "j", " ">>), StateString(<<"A", "L">>)}

FeeSubtotals == {Undefined, Num(0), Num(10333)}

FeeInputs ==
    {[obj |-> FALSE, alSubtotal |-> Undefined, state |-> NoState,
      policyType |-> "", isAdmitted |-> "undefined", brokerFee |-> Undefined]}
    \cup
    {[obj |-> TRUE, alSubtotal |-> al, state |-> st, policyType |-> pt,
      isAdmitted |-> adm, brokerFee |-> bf] :
        al \in FeeSubtotals, st \in FeeStates, pt \in {"", "Renewal"},
        adm \in {"true", "false", "undefined"},
        bf \in {Null, Num(5000), Num(-1000)}}

NoRule == [type |-> "none", value |-> 0]

NoUwPolicyFees ==
    [obj |-> FALSE, policyFeeStd |-> Undefined, policyFeeNJ |-> Undefined,
     uwFeeNew |-> Undefined, uwFeeRen |-> Undefined]

\* uwPolicyFees: absent, or policy fees each absent, 0 or a positive amount,
\* with a new-business fee and no renewal fee
UwPolicyFeeConfigs ==
    {NoUwPolicyFees}
    \cup {[obj |-> TRUE, policyFeeStd |-> std, policyFeeNJ |-> nj,
           uwFeeNew |-> Num(175), uwFeeRen |-> Undefined] :
            std \in {Undefined, Num(0), Num(300)},
            nj \in {Undefined, Num(0), Num(275)}}

TaxableConfigs ==
    {[obj |-> FALSE, policy |-> FALSE, uw |-> FALSE, broker |-> FALSE],
     [obj |-> TRUE, policy |-> FALSE, uw |-> TRUE, broker |-> TRUE]}

\* taxRules: null, or the rules of a state
TaxRuleSets ==
    {[obj |-> FALSE, slt_rate |-> 0, stamp_rate |-> 0, fire |-> NoRule,
      other |-> NoRule, taxable |-> t, uwPolicyFees |-> u] :
        t \in {[obj |-> FALSE, policy |-> FALSE, uw |-> FALSE, broker |-> FALSE]},
        u \in {NoUwPolicyFees}}
    \cup
    {[obj |-> TRUE, slt_rate |-> rates[1], stamp_rate |-> rates[2], fire |-> f,
      other |-> o, taxable |-> t, uwPolicyFees |-> u] :
        rates \in {<<0, 0>>, <<485, 20>>},
        f \in {NoRule, [type |-> "flat", value |-> 50],
               [type |-> "percentage", value |-> 100]},
        o \in {NoRule, [type |-> "percentage", value |-> 250]},
        t \in TaxableConfigs, u \in UwPolicyFeeConfigs}

FeeCalls ==
    {[fn |-> "calculateFeesAndTaxes", input |-> i, taxRules |-> r] :
        i \in FeeInputs, r \in TaxRuleSets}

InitFees == call \in FeeCalls /\ ret = Pending /\ ApplicationAtLoad

\* the call returns
CalculateFeesAndTaxes ==
    /\ call.fn = "calculateFeesAndTaxes"
    /\ ret = Pending
    /\ ret' = calculateFeesAndTaxes(call.input, call.taxRules)
    /\ UNCHANGED <<call, appState, invoked, dom>>

NextFees == CalculateFeesAndTaxes

SpecFees == InitFees /\ [][NextFees]_vars

(***************************************************************************)
(* Claims about the fee and tax engine.                                    *)
(***************************************************************************)
FeesReturned == Returned /\ call.fn = "calculateFeesAndTaxes"

\* the result of the same call with isAdmitted = false
NonAdmittedResult ==
    calculateFeesAndTaxes([call.input EXCEPT !.isAdmitted = "false"], call.taxRules)

\* C8: with isAdmitted = true, slt and stamp are 0 for every state, rule set
\* and subtotal, and fire and other equal those of the same call with
\* isAdmitted = false.
C8_AdmittedZeroesSltAndStamp ==
    (FeesReturned /\ call.input.isAdmitted = "true") =>
        /\ ret.slt = 0 /\ ret.stamp = 0
        /\ ret.fire = NonAdmittedResult.fire
        /\ ret.other = NonAdmittedResult.other

\* C8 witness: an admitted call has returned no slt and stamp and positive
\* fire and other where the non-admitted call owes slt and stamp
C8_Witness ==
    /\ FeesReturned /\ call.input.isAdmitted = "true"
    /\ NonAdmittedResult.slt > 0 /\ NonAdmittedResult.stamp > 0
    /\ ret.slt = 0 /\ ret.stamp = 0
    /\ ret.fire > 0 /\ ret.other > 0

\* C9 (as claimed): policyFee is the configured policyFeeNJ when the state is
\* NJ and the configured policyFeeStd for every other state, for every
\* configured fee value.
C9_PolicyFeeIsConfiguredFee ==
    (/\ FeesReturned /\ call.input.obj /\ call.input.alSubtotal.t = "number"
     /\ call.taxRules.obj /\ call.taxRules.uwPolicyFees.obj
     /\ call.taxRules.uwPolicyFees.policyFeeNJ.t = "number"
     /\ call.taxRules.uwPolicyFees.policyFeeStd.t = "number")
    => ret.policyFee =
         IF NormalizedFeeState(call.input.state) = <<"N", "J">>
         THEN call.taxRules.uwPolicyFees.policyFeeNJ.v
         ELSE call.taxRules.uwPolicyFees.policyFeeStd.v

FactorScale == 100

MaxDrivers == 3

\* the neutral factor 1.0
NeutralFactor == Rat(1, 1)

ToLowerChar(c) ==
    CASE c = "M" -> "m" [] c = "E" -> "e" [] c = "A" -> "a" [] c = "N" -> "n"
      [] c = "W" -> "w" [] c = "O" -> "o" [] c = "R" -> "r" [] c = "S" -> "s"
      [] c = "T" -> "t" [] c = "I" -> "i" [] c = "G" -> "g" [] c = "H" -> "h"
      [] c = "D" -> "d" [] c = "C" -> "c" [] c = "L" -> "l" [] OTHER -> c

toLowerCase(s) == [i \in DOMAIN s |-> ToLowerChar(s[i])]

RECURSIVE SumFactors(_)
\* reduce((acc, d) => acc + d.compositeFactor, 0)
SumFactors(factors) ==
    IF factors = <<>> THEN 0 ELSE factors[1] + SumFactors(Tail(factors))

RECURSIVE MaxFactor(_)
\* Math.max(...factors), factors not empty
MaxFactor(factors) ==
    IF Len(factors) = 1 THEN factors[1]
    ELSE LET rest == MaxFactor(Tail(factors))
         IN  IF factors[1] > rest THEN factors[1] ELSE rest

MeanFactor_max(factors) == Rat(MaxFactor(factors), FactorScale)

\* sum / driversWithFactors.length
MeanFactor(factors) == Rat(SumFactors(factors), FactorScale * Len(factors))

WeightedFactor_unsplit(factors) ==
    Rat(60 * factors[1] + 40 * SumFactors(Tail(factors)), 100 * FactorScale)

\* primaryFactor * 0.60 + the sum of compositeFactor * (0.40 / others)
WeightedFactor(factors) ==
    LET others == Len(factors) - 1
    IN  Rat(60 * factors[1] * others + 40 * SumFactors(Tail(factors)),
            100 * FactorScale * others)

MethodMean == <<"m", "e", "a", "n">>

MethodWorst == <<"w", "o", "r", "s", "t">>

MethodWeighted == <<"w", "e", "i", "g", "h", "t", "e", "d">>

\* the method parameter with its default: method = 'mean'
MethodOrDefault(method) == IF method.t = "undefined" THEN MethodMean ELSE method.s

aggregateDriverFactors(driversWithFactors, method) ==
    IF ~driversWithFactors.arr \/ Len(driversWithFactors.factors) = 0
    THEN NeutralFactor
    ELSE IF Len(driversWithFactors.factors) = 1
    THEN Rat(driversWithFactors.factors[1], FactorScale)
    ELSE LET normalizedMethod == toLowerCase(MethodOrDefault(method))
             factors == driversWithFactors.factors
         IN  IF normalizedMethod = MethodMean THEN MeanFactor(factors)
             ELSE IF normalizedMethod = MethodWorst
             THEN Rat(MaxFactor(factors), FactorScale)
             ELSE IF normalizedMethod = MethodWeighted THEN WeightedFactor(factors)
             ELSE MeanFactor(factors)

(***************************************************************************)
(* Inputs of the aggregation calls.                                        *)
(***************************************************************************)
\* composite factors 0.90, 1.66 and 0.73
CompositeFactors == {90, 166, 73}

FactorLists ==
    UNION {[1..n -> CompositeFactors] : n \in 0..MaxDrivers}

DriverLists ==
    {[arr |-> FALSE, factors |-> <<>>]}
    \cup {[arr |-> TRUE, factors |-> fs] : fs \in FactorLists}

\* methods that are none of mean, worst and weighted in any letter case
UnrecognisedMethods ==
    {StateString(<<"m", "e", "d", "i", "a", "n">>), StateString(<<>>)}

Methods ==
    {NoState, StateString(MethodMean), StateString(MethodWorst),
     StateString(MethodWeighted), StateString(<<"M", "E", "A", "N">>),
     StateString(<<"W", "e", "i", "g", "h", "t", "e", "d">>)}
    \cup UnrecognisedMethods

AggregateCalls ==
    {[fn |-> "aggregateDriverFactors", driversWithFactors |-> d, method |-> m] :
        d \in DriverLists, m \in Methods}

InitAggregate == call \in AggregateCalls /\ ret = Pending /\ ApplicationAtLoad

\* the call returns
AggregateDriverFactors ==
    /\ call.fn = "aggregateDriverFactors"
    /\ ret = Pending
    /\ ret' = aggregateDriverFactors(call.driversWithFactors, call.method)
    /\ UNCHANGED <<call, appState, invoked, dom>>

NextAggregate == AggregateDriverFactors

SpecAggregate == InitAggregate /\ [][NextAggregate]_vars

(***************************************************************************)
(* Claims about driver-factor aggregation.                                 *)
(***************************************************************************)
AggregateReturned == Returned /\ call.fn = "aggregateDriverFactors"

\* equality of two quotients
RatEq(a, b) == a.n * b.d = b.n * a.d

CallFactors == call.driversWithFactors.factors

\* C15: an empty driver list aggregates to the neutral factor 1.0 under every
\* method, a non-empty list with an unrecognised method aggregates to the
\* arithmetic mean of the composite factors, and no result divides by zero.
C15_EmptyIsNeutralAndUnknownIsMean ==
    AggregateReturned =>
        /\ ret.d # 0
        /\ CallFactors = <<>> => RatEq(ret, Rat(1, 1))
        /\ (CallFactors # <<>> /\ call.method \in UnrecognisedMethods)
             => RatEq(ret, Rat(SumSeq(CallFactors), FactorScale * Len(CallFactors)))

\* C15 witness: two or more drivers with differing composite factors have
\* been aggregated by an unrecognised method to their mean
C15_Witness ==
    /\ AggregateReturned /\ Len(CallFactors) >= 2
    /\ call.method \in UnrecognisedMethods
    /\ CallFactors[1] # CallFactors[2]
    /\ RatEq(ret, Rat(SumSeq(CallFactors), FactorScale * Len(CallFactors)))

\* C16: with two or more drivers, 'weighted' returns 0.6 times the first
\* composite factor plus 0.4 times the mean of the remaining ones; 0.90, 1.66
\* and 0.73 give 1.018.
C16_WeightedIsSixtyForty ==
    (/\ AggregateReturned /\ Len(CallFactors) >= 2
     /\ call.method = StateString(MethodWeighted))
    => /\ RatEq(ret, Rat(6 * CallFactors[1] * (Len(CallFactors) - 1)
                           + 4 * SumSeq(Tail(CallFactors)),
                         10 * FactorScale * (Len(CallFactors) - 1)))
       /\ CallFactors = <<90, 166, 73>> => RatEq(ret, Rat(1018, 1000))

\* C16 witness: 0.90, 1.66 and 0.73 have been aggregated by 'weighted' to 1.018
C16_Witness ==
    /\ AggregateReturned /\ CallFactors = <<90, 166, 73>>
    /\ call.method = StateString(MethodWeighted)
    /\ RatEq(ret, Rat(1018, 1000))

(***************************************************************************)
(* Further claims about the reconciliation engine.                         *)
(***************************************************************************)
\* C12 (as claimed): the result's tolerance is the caller's tolerance for
\* every numeric value supplied, 0 included, and 500 when none is supplied.
C12_ToleranceIsCallersValue ==
    NumericTotalsCall =>
        /\ TypeofNumber(call.options.tolerance)
             => ret.tolerance = call.options.tolerance.v
        /\ call.options.tolerance = Undefined => ret.tolerance = DefaultTolerance

\* C13 (as claimed): for numeric totals the reported percentDiff is
\* |(computed - pdf) / pdf| x 100 when the PDF total is not zero, 0 when both
\* totals are zero and 100 when only the PDF total is zero.
C13_PercentDiffOfTotals ==
    NumericTotalsCall =>
        LET computed == call.computed.f["total"].v
            pdf == call.pdf.f["total"].v
        IN  IF pdf # 0
            THEN ret.percentDiff.n * pdf = Abs(computed - pdf) * 100 * ret.percentDiff.d
            ELSE IF computed = 0 THEN ret.percentDiff.n = 0
            ELSE ret.percentDiff.n = 100 * ret.percentDiff.d

(***************************************************************************)
(* Rounding (roundToCents) as a call of its own: the value is n / d.       *)
(***************************************************************************)
MaxRoundNum == 10

\* halves, quarters and whole numbers, and values 0.00005 on either side of
\* a half
RoundCalls ==
    {[fn |-> "roundToCents", n |-> n, d |-> d] :
        n \in (-MaxRoundNum)..MaxRoundNum, d \in {1, 2, 4}}
    \cup
    {[fn |-> "roundToCents", n |-> k * 10000 + e, d |-> 20000] :
        k \in {1, 3, 5}, e \in {-1, 1}}

InitRound == call \in RoundCalls /\ ret = Pending /\ ApplicationAtLoad

\* the call returns
RoundToCents ==
    /\ call.fn = "roundToCents"
    /\ ret = Pending
    /\ ret' = [value |-> roundToCents(call.n, call.d)]
    /\ UNCHANGED <<call, appState, invoked, dom>>

SpecRound == InitRound /\ [][RoundToCents]_vars

\* C14 (as claimed): a value whose fractional part is exactly 0.5 rounds to
\* its even neighbour, and every other value rounds to the nearest integer.
C14_HalfToEvenElseNearest ==
    (Returned /\ call.fn = "roundToCents") =>
        IF 2 * (call.n % call.d) = call.d
        THEN /\ ret.value % 2 = 0
             /\ 2 * Abs(ret.value * call.d - call.n) = call.d
        ELSE 2 * Abs(ret.value * call.d - call.n) < call.d

(***************************************************************************)
(* Rating engine (calculateALPremium).  A table of the rating workbook is  *)
(* [obj, keys, v]: absent, or an object holding v under each key of keys.  *)
(***************************************************************************)
NoTable == [obj |-> FALSE, keys |-> {}, v |-> Undefined]

KeyedTable(keys, v) == [obj |-> TRUE, keys |-> keys, v |-> v]

\* typeof factor === 'number' && factor > 0 ? factor : 1.0
FactorOrNeutral(factor) ==
    IF factor.t = "number" /\ factor.v > 0 THEN factor.v ELSE FactorScale

\* ratingTable.base_AL[state.trim().toUpperCase()] || null for a string
\* state; 0 stands for null
lookupBaseAL(state, ratingTable) ==
    IF ~ratingTable.base_AL.obj THEN 0
    ELSE IF toUpperCase(trim(state.s)) \in ratingTable.base_AL.keys
              /\ Truthy(ratingTable.base_AL.v)
    THEN ratingTable.base_AL.v.v
    ELSE 0

\* a factor table keyed by the state
lookupStateFactor(state, table) ==
    IF ~table.obj THEN FactorScale
    ELSE IF toUpperCase(trim(state.s)) \in table.keys THEN FactorOrNeutral(table.v)
    ELSE FactorScale

\* lookupLimitFactor: a table keyed by the trimmed limit
lookupLimitFactor(limitKey, table) ==
    IF ~table.obj \/ limitKey.t # "string" \/ limitKey.s = <<>> THEN FactorScale
    ELSE IF trim(limitKey.s) \in table.keys THEN FactorOrNeutral(table.v)
    ELSE FactorScale

\* lookupBodyClassFactor: the nested table is held as the states it has and,
\* under each, v for every vehicle whose rated flag is set
lookupBodyClassFactor(state, vehicle, table) ==
    IF ~table.obj THEN FactorScale
    ELSE IF toUpperCase(trim(state.s)) \in table.keys /\ vehicle.rated
    THEN FactorOrNeutral(table.v)
    ELSE FactorScale

\* getAttributeFactor('age', ...) for bands holding at most one age band;
\* experience and MVR bands are absent, so those factors are 1.0
calculateDriverFactors(drivers, bands) ==
    [i \in DOMAIN drivers |->
        IF bands.obj /\ drivers[i] >= bands.min /\ drivers[i] <= bands.max
        THEN FactorOrNeutral(bands.factor)
        ELSE FactorScale]

RECURSIVE Gcd(_, _)
Gcd(a, b) == IF b = 0 THEN a ELSE Gcd(b, a % b)

\* the product x * factor of a quotient and a factor, in lowest terms
TimesFactor(x, factor) ==
    LET n == x.n * factor
        d == x.d * FactorScale
        g == Gcd(n, d)
    IN  Rat(n \div g, d \div g)

NoVehicles_nullOnly(vehicles) == vehicles.t = "null"

\* !vehicles || vehicles.length === 0, after the default vehicles = []
NoVehicles(vehicles) == vehicles.t # "array" \/ vehicles.items = <<>>

ALBase ==
    [subtotal |-> 0, perUnit |-> <<>>, traced |-> FALSE, errors |-> <<>>,
     warnings |-> <<>>]

calculateALPremium(policyData, ratingTable, attributeBands, options) ==
    LET result == ALBase
        state == policyData.policy.state
    IN  IF ~policyData.obj \/ ~policyData.policy.obj
        THEN [result EXCEPT !.errors = <<"Invalid policy data">>]
        ELSE IF ~ratingTable.obj
        THEN [result EXCEPT !.errors = <<"Rating table is required">>]
        ELSE IF state.t = "undefined" \/ (state.t = "string" /\ state.s = <<>>)
        THEN [result EXCEPT !.errors = <<"Policy state is required">>]
        ELSE IF NoVehicles(policyData.vehicles)
        THEN [result EXCEPT !.errors = <<"At least one vehicle is required">>]
        ELSE IF ratingTable.base_AL.obj /\ state.t # "string"
        \* state.trim is not a function: the catch block
        THEN [result EXCEPT !.errors = <<"Calculation error">>]
        ELSE IF lookupBaseAL(state, ratingTable) = 0
        THEN [result EXCEPT !.errors = <<"Base AL premium not found for state">>]
        ELSE
        LET base_AL == lookupBaseAL(state, ratingTable)
            limitFactor == lookupLimitFactor(policyData.policy.limit, ratingTable.limit)
            \* policy.radius is absent: lookupRadiusFactor returns 1.0
            radiusFactor == FactorScale
            stateFactor == lookupStateFactor(state, ratingTable.stateFactor)
            driverFactor == aggregateDriverFactors(
                [arr |-> TRUE,
                 factors |-> calculateDriverFactors(policyData.drivers, attributeBands)],
                options.aggregation)
            vehicles == policyData.vehicles.items
            \* base_AL * bodyClassFactor * radiusFactor * limitFactor * stateFactor
            chain(bodyClassFactor) ==
                TimesFactor(TimesFactor(TimesFactor(TimesFactor(
                    Rat(base_AL, 1), bodyClassFactor), radiusFactor), limitFactor),
                    stateFactor)
            driver == LET g == Gcd(driverFactor.n, driverFactor.d)
                      IN  Rat(driverFactor.n \div g, driverFactor.d \div g)
            unitPremium(vehicle) ==
                LET c == chain(lookupBodyClassFactor(state, vehicle,
                                                     ratingTable.bodyClass))
                IN  MathRound(c.n * driver.n, c.d * driver.d)
            perUnitPremiums ==
                [i \in DOMAIN vehicles |-> Unit(unitPremium(vehicles[i]))]
            minPremiums ==
                IF ratingTable.minPremiums.obj
                   /\ toUpperCase(trim(state.s)) \in ratingTable.minPremiums.keys
                THEN ratingTable.minPremiums.v
                ELSE [obj |-> FALSE, perUnit |-> Undefined, perPolicy |-> Undefined]
            afterMinimum == applyMinimumPremium(perUnitPremiums, minPremiums)
        IN  [result EXCEPT
               !.subtotal = afterMinimum.subtotal,
               !.perUnit = afterMinimum.perUnit,
               !.traced = TRUE,
               !.warnings = IF afterMinimum.minimumApplied # "null"
                            THEN <<"Minimum premium applied">> ELSE <<>>]

(***************************************************************************)
(* Inputs of the rating calls.                                             *)
(***************************************************************************)
StateAL == <<"A", "L">>

\* policyData: null, without a policy, or a policy with its state and limit,
\* the vehicles (absent, null or a list) and the ages of the drivers
ALPolicies ==
    {[obj |-> o, policy |-> [obj |-> FALSE, state |-> NoState, limit |-> NoState],
      vehicles |-> [t |-> "undefined", items |-> <<>>], drivers |-> <<>>] :
        o \in BOOLEAN}
    \cup
    {[obj |-> TRUE, policy |-> [obj |-> TRUE, state |-> st, limit |-> lim],
      vehicles |-> v, drivers |-> d] :
        st \in {NoState, [t |-> "number", s |-> <<>>], StateString(<<>>),
                StateString(StateAL), StateString(<<" ", "a", "l">>),
                StateString(<<"L", "A">>)},
        lim \in {NoState, StateString(<<"1", "M">>)},
        v \in {[t |-> "undefined", items |-> <<>>], [t |-> "null", items |-> <<>>],
               [t |-> "array", items |-> <<>>],
               [t |-> "array", items |-> <<[rated |-> TRUE]>>],
               [t |-> "array", items |-> <<[rated |-> TRUE], [rated |-> FALSE]>>]},
        d \in {<<>>, <<22>>, <<22, 40>>}}

\* ratingTable: null, or the tables of a program that rates AL only
ALTables ==
    {[obj |-> FALSE, base_AL |-> NoTable, stateFactor |-> NoTable, limit |-> NoTable,
      bodyClass |-> NoTable, minPremiums |-> NoTable]}
    \cup
    {[obj |-> TRUE, base_AL |-> b, stateFactor |-> s, bodyClass |-> bc,
      limit |-> KeyedTable({<<"1", "M">>}, Num(125)), minPremiums |-> m] :
        b \in {NoTable, KeyedTable({StateAL}, Num(100000)),
               KeyedTable({StateAL}, Num(0))},
        s \in {NoTable, KeyedTable({StateAL}, Num(110))},
        bc \in {NoTable, KeyedTable({StateAL}, Num(120))},
        m \in {NoTable,
               KeyedTable({StateAL}, [obj |-> TRUE, perUnit |-> Undefined,
                                      perPolicy |-> Num(500000)])}}

ALCalls ==
    {[fn |-> "calculateALPremium", policyData |-> p, ratingTable |-> t,
      attributeBands |-> b, options |-> [aggregation |-> a]] :
        p \in ALPolicies, t \in ALTables,
        b \in {[obj |-> FALSE, min |-> 0, max |-> 0, factor |-> Undefined],
               [obj |-> TRUE, min |-> 16, max |-> 25, factor |-> Num(150)]},
        a \in {NoState, StateString(MethodWorst)}}

InitAL == call \in ALCalls /\ ret = Pending /\ ApplicationAtLoad

\* the call returns
CalculateALPremium ==
    /\ call.fn = "calculateALPremium"
    /\ ret = Pending
    /\ ret' = calculateALPremium(call.policyData, call.ratingTable,
                                 call.attributeBands, call.options)
    /\ UNCHANGED <<call, appState, invoked, dom>>

SpecAL == InitAL /\ [][CalculateALPremium]_vars

(***************************************************************************)
(* Claims about the rating engine.                                         *)
(***************************************************************************)
ALReturned == Returned /\ call.fn = "calculateALPremium"

\* the table has no base premium for the state of the policy
NoBasePremium ==
    /\ call.policyData.policy.state.t = "string"
    /\ \/ ~call.ratingTable.base_AL.obj
       \/ toUpperCase(trim(call.policyData.policy.state.s))
            \notin call.ratingTable.base_AL.keys

MaxPolicies == 2

\* a parsed policy: policy.state, policy.address.state, the vehicles and
\* pdf_money with the printed_total_cents of extractALPricing and the total
\* that calculateAndDisplayFees reads
ParsedPolicy(state, addressState, vehicles, printed, total) ==
    [policy |-> [state |-> state, addressState |-> addressState,
                 limit |-> NoState, carrierName |-> ""],
     vehicles |-> vehicles, drivers |-> <<22>>,
     pdf_money |-> [printed_total_cents |-> printed, total |-> total]]

\* policies as parsePDF returns them (the state in the address only), and
\* policies carrying policy.state and pdf_money.total, which the handlers read
ParsedPolicySet ==
    {ParsedPolicy(NoState, StateString(StateAL), <<[rated |-> TRUE]>>,
                  Num(150000), Undefined),
     ParsedPolicy(StateString(StateAL), NoState, <<[rated |-> TRUE]>>,
                  Num(150000), Undefined),
     ParsedPolicy(StateString(StateAL), NoState, <<[rated |-> TRUE]>>,
                  Null, Undefined),
     ParsedPolicy(StateString(StateAL), NoState, <<>>, Num(150000), Undefined),
     ParsedPolicy(StateString(<<"L", "A">>), NoState, <<[rated |-> TRUE]>>,
                  Num(150000), Undefined),
     ParsedPolicy(StateString(StateAL), NoState, <<[rated |-> TRUE]>>,
                  Num(150000), Num(150000))}

\* a program's tables as ingestRaterWorkbook returns them, rating the given
\* states with one base premium
ProgramTables(states) ==
    [kind |-> "table", keys |-> states, obj |-> TRUE,
     base_AL |-> KeyedTable(states, Num(100000)),
     stateFactor |-> KeyedTable(states, Num(110)),
     bodyClass |-> KeyedTable(states, Num(120)),
     limit |-> KeyedTable({<<"1", "M">>}, Num(125)),
     minPremiums |-> NoTable]

\* the tax rules of one state, or no rules
StateTaxRules(obj) ==
    [obj |-> obj, slt_rate |-> IF obj THEN 485 ELSE 0,
     stamp_rate |-> IF obj THEN 20 ELSE 0, fire |-> NoRule, other |-> NoRule,
     taxable |-> [obj |-> FALSE, policy |-> FALSE, uw |-> FALSE, broker |-> FALSE],
     uwPolicyFees |-> NoUwPolicyFees]

\* one call of an engine in a Recalculate run and the errors it returned
Invocation(engine, errors) == [engine |-> engine, errors |-> errors]

\* x || y on two state values
OrElse(x, y) == IF x.t = "string" /\ x.s # <<>> THEN x ELSE y

\* performReconciliation: reconcileTotals on the fee result and pdf_money
performReconciliation(computed, pdfMoney) ==
    reconcileTotals(
        [obj |-> TRUE, f |-> [k \in Components |-> Num(computed[k])]],
        [obj |-> TRUE,
         f |-> [k \in Components |-> IF k = "total" THEN pdfMoney.total ELSE Null]],
        [tolerance |-> Num(DefaultTolerance)])

\* calculateAndDisplayFees on the application app; log is the list of engines
\* invoked so far in the run
calculateAndDisplayFees(app, log, isAdmitted) ==
    LET policyData == app.parsedPolicies[app.currentPolicyIndex + 1]
        state == OrElse(policyData.policy.state, policyData.policy.addressState)
        \* window.appState.stateTaxRules?.[state]
        taxRules == IF app.stateTaxRules # Null /\ state.t = "string"
                       /\ state.s \in app.stateTaxRules.keys
                    THEN StateTaxRules(TRUE) ELSE StateTaxRules(FALSE)
        feeResult == calculateFeesAndTaxes(
            [obj |-> TRUE, alSubtotal |-> app.alSubtotal, state |-> state,
             \* policyData.policy.policyType || 'new'
             policyType |-> "new", isAdmitted |-> IF isAdmitted THEN "true" ELSE "false",
             brokerFee |-> Null], taxRules)
        withFees == [app EXCEPT !.feesAndTaxes = feeResult]
    IN  IF ~Truthy(app.alSubtotal) THEN [app |-> app, invoked |-> log]
        ELSE IF Truthy(policyData.pdf_money.total)
        THEN [app |-> [withFees EXCEPT !.reconciliation =
                          performReconciliation(feeResult, policyData.pdf_money)],
              invoked |-> log \o <<Invocation("calculateFeesAndTaxes", feeResult.errors),
                                  Invocation("reconcileTotals", <<>>)>>]
        ELSE [app |-> withFees,
              invoked |-> log \o <<Invocation("calculateFeesAndTaxes", feeResult.errors)>>]

RatingFailed_never(result) == FALSE

\* result.errors && result.errors.length > 0
RatingFailed(result) == result.errors # <<>>

\* handleRecalculate with the value of the limit select and the admitted
\* toggle; the result is the application after the run and the engines invoked
handleRecalculate(app, limitValue, isAdmitted) ==
    IF app.parsedPolicies = <<>> \/ app.cwTables = Null \/ app.ssTables = Null
    THEN [app |-> app, invoked |-> <<>>]
    ELSE
    LET index == app.currentPolicyIndex + 1
        policyData == app.parsedPolicies[index]
        limit == OrElse(limitValue, policyData.policy.limit)
        \* policyData.policy.limit = limit
        stored == [app EXCEPT !.parsedPolicies[index].policy.limit = limit]
        programResolution == detectProgramHybrid(
            [obj |-> TRUE, carrierName |-> policyData.policy.carrierName,
             state |-> policyData.policy.state], app.cwTables, app.ssTables)
        ratingTable == getProgramTable(programResolution.program,
                                       app.cwTables, app.ssTables)
        normalizedPolicy ==
            [obj |-> TRUE,
             policy |-> [obj |-> TRUE, limit |-> limit,
                         state |-> OrElse(policyData.policy.state,
                                          policyData.policy.addressState)],
             vehicles |-> [t |-> "array", items |-> policyData.vehicles],
             drivers |-> policyData.drivers]
        result == calculateALPremium(normalizedPolicy, ratingTable,
                                     app.attributeBands, [aggregation |-> NoState])
        detected == Invocation("detectProgramHybrid", <<>>)
        rated == [stored EXCEPT
                    !.alSubtotal = Num(result.subtotal),
                    !.factorTrace = [subtotal |-> result.subtotal,
                                     program |-> programResolution.program,
                                     programSource |-> programResolution.source]]
    IN  IF programResolution.program = "null"
        THEN [app |-> stored, invoked |-> <<detected>>]
        ELSE IF RatingFailed(result)
        THEN [app |-> stored,
              invoked |-> <<detected, Invocation("calculateALPremium", result.errors)>>]
        ELSE calculateAndDisplayFees(
                 rated, <<detected, Invocation("calculateALPremium", result.errors)>>,
                 isAdmitted)

\* AppState once policies are parsed and the workbooks possibly loaded
RecalculateStarts ==
    {[InitialAppState EXCEPT
        !.parsedPolicies = ps, !.cwTables = t[1], !.ssTables = t[2],
        !.attributeBands = [obj |-> FALSE, min |-> 0, max |-> 0, factor |-> Undefined],
        !.stateTaxRules = r] :
        ps \in UNION {[1..n -> ParsedPolicySet] : n \in 0..MaxPolicies},
        t \in {<<Null, Null>>, <<ProgramTables({StateAL}), ProgramTables({})>>},
        r \in {Null, [keys |-> {StateAL}]}}

InitRecalculate ==
    /\ appState \in RecalculateStarts /\ invoked = <<>>
    /\ call = [fn |-> "handleRecalculate"] /\ ret = Pending
    \* handleParsePDF shows the selector for more than one policy
    /\ dom = [DocumentAtLoad EXCEPT
                 !.policySelector = Len(appState.parsedPolicies) > 1]

\* a click on Recalculate
HandleRecalculate ==
    \E limitValue \in {NoState, StateString(<<"1", "M">>)}, isAdmitted \in BOOLEAN :
        LET run == handleRecalculate(appState, limitValue, isAdmitted)
        IN  /\ appState' = run.app
            /\ invoked' = run.invoked
            /\ UNCHANGED <<call, ret, dom>>

\* a change of the policy selector; displayParsedData then rewrites the
\* panel that held the selector
SelectPolicy ==
    \E index \in 1..(Len(appState.parsedPolicies) - 1) :
        /\ dom.policySelector
        /\ appState' = [appState EXCEPT !.currentPolicyIndex = index]
        /\ dom' = [dom EXCEPT !.policySelector = FALSE]
        /\ UNCHANGED <<call, ret, invoked>>

NextRecalculate == HandleRecalculate \/ SelectPolicy

SpecRecalculate == InitRecalculate /\ [][NextRecalculate]_vars

(***************************************************************************)
(* Claims about the Recalculate pipeline.                                  *)
(***************************************************************************)
\* the engines invoked in the latest Recalculate run
EnginesInvoked(log) == {log[i].engine : i \in 1..Len(log)}

\* the latest run's rating result carried an error
RatingReportedErrors(log) ==
    \E i \in 1..Len(log) : log[i].engine = "calculateALPremium" /\ log[i].errors # <<>>

\* C17: in a Recalculate run whose rating result carries an error, the fee/tax
\* engine is not invoked and the rating subtotal, factor trace and fee
\* breakdown of AppState are left as they were before the run.
C17_RatingErrorsStopThePipeline ==
    [][RatingReportedErrors(invoked')
        => /\ "calculateFeesAndTaxes" \notin EnginesInvoked(invoked')
           /\ "reconcileTotals" \notin EnginesInvoked(invoked')
           /\ appState'.alSubtotal = appState.alSubtotal
           /\ appState'.factorTrace = appState.factorTrace
           /\ appState'.feesAndTaxes = appState.feesAndTaxes]_vars

\* a run on a policy without vehicles failed in the rating engine after an
\* earlier run had stored its results
C17_Witness ==
    /\ RatingReportedErrors(invoked)
    /\ appState.parsedPolicies[appState.currentPolicyIndex + 1].vehicles = <<>>
    /\ appState.alSubtotal # Null
    /\ appState.feesAndTaxes # Null

\* the latest run went through rating and fees
RunSucceeded(log) ==
    /\ "calculateFeesAndTaxes" \in EnginesInvoked(log)
    /\ ~RatingReportedErrors(log)

MaxPageNumber == 2

MaxOcrPages == 3

ReviewThreshold == 85

PageFailures ==
    {[rejects |-> stage, confidence |-> 0] : stage \in {"getPage", "render", "recognize"}}

PageOutcomes ==
    PageFailures \cup {[rejects |-> "none", confidence |-> c] :
                          c \in {0, ReviewThreshold - 1, ReviewThreshold}}

FailedPage_unflagged(pageNumber) ==
    [text |-> "", confidence |-> 0, needsReview |-> FALSE,
     pageNumber |-> pageNumber, error |-> TRUE]

\* the result both catch blocks build
FailedPage(pageNumber) ==
    [text |-> "", confidence |-> 0, needsReview |-> TRUE,
     pageNumber |-> pageNumber, error |-> TRUE]

ocrPage_inclusive(pdfPage, pageNumber) ==
    IF pdfPage \in PageFailures
    THEN FailedPage(pageNumber)
    ELSE [text |-> "recognized", confidence |-> pdfPage.confidence,
          needsReview |-> pdfPage.confidence <= ReviewThreshold,
          pageNumber |-> pageNumber, error |-> FALSE]

\* ocrPage on a page obtained from the document
ocrPage(pdfPage, pageNumber) ==
    IF pdfPage \in PageFailures
    THEN FailedPage(pageNumber)
    ELSE LET confidence == pdfPage.confidence
         IN  [text |-> "recognized", confidence |-> confidence,
              needsReview |-> confidence < ReviewThreshold,
              pageNumber |-> pageNumber, error |-> FALSE]

OcrCalls ==
    {[fn |-> "ocrPages", pdf |-> pdf, pageNumbers |-> pageNumbers] :
        pdf \in [1..MaxPageNumber -> PageOutcomes],
        pageNumbers \in UNION {[1..n -> 1..MaxPageNumber] : n \in 0..MaxOcrPages}}

InitOcr ==
    /\ call \in OcrCalls
    /\ ret = [status |-> "pending", results |-> <<>>]
    /\ ApplicationAtLoad

\* one iteration of the loop of ocrPages; invoked lists the pages requested
\* from the document so far
OcrNextPage ==
    /\ ret.status = "pending"
    /\ Len(ret.results) < Len(call.pageNumbers)
    /\ LET pageNum == call.pageNumbers[Len(ret.results) + 1]
           result == IF call.pdf[pageNum].rejects = "getPage"
                     THEN FailedPage(pageNum)
                     ELSE ocrPage(call.pdf[pageNum], pageNum)
       IN  /\ ret' = [ret EXCEPT !.results = Append(@, result)]
           /\ invoked' = Append(invoked, pageNum)
    /\ UNCHANGED <<call, appState, dom>>

\* return results
OcrPagesReturns ==
    /\ ret.status = "pending"
    /\ Len(ret.results) = Len(call.pageNumbers)
    /\ ret' = [ret EXCEPT !.status = "returned"]
    /\ UNCHANGED <<call, appState, invoked, dom>>

SpecOcr == InitOcr /\ [][OcrNextPage \/ OcrPagesReturns]_vars

\* C20: ocrPages requests the pages one at a time in the given order; result
\* i is the result of requested page i; a page whose recognition fails has
\* confidence 0 and needsReview true; and the call returns only with one
\* result for every requested page.
C20_OneResultPerPageInOrder ==
    /\ Len(ret.results) <= Len(call.pageNumbers)
    /\ invoked = SubSeq(call.pageNumbers, 1, Len(ret.results))
    /\ \A i \in 1..Len(ret.results) :
          /\ ret.results[i].pageNumber = call.pageNumbers[i]
          /\ call.pdf[call.pageNumbers[i]] \in PageFailures
                => /\ ret.results[i].confidence = 0
                   /\ ret.results[i].needsReview
          /\ call.pdf[call.pageNumbers[i]] \notin PageFailures
                => /\ ret.results[i].confidence = call.pdf[call.pageNumbers[i]].confidence
                   /\ ~ret.results[i].error
    /\ ret.status = "returned" => Len(ret.results) = Len(call.pageNumbers)

\* a returned batch whose first page failed and whose later page was recognized
C20_Witness ==
    /\ ret.status = "returned"
    /\ Len(ret.results) = MaxOcrPages
    /\ call.pdf[call.pageNumbers[1]] \in PageFailures
    /\ ret.results[1].error /\ ret.results[1].needsReview
    /\ ~ret.results[MaxOcrPages].error

(***************************************************************************)
(* JSON export (export module: exportToJSON, formatAuditDataForExport).    *)
(* A field of the audit data is absent, a plain JSON value, or a value     *)
(* JSON.stringify throws on (an object holding a reference to itself, a    *)
(* BigInt).  A JSON text is modelled by the document JSON.parse reads from *)
(* it: its keys and its exportVersion.                                     *)
(***************************************************************************)
ExportFields ==
    {"policy", "vehicles", "drivers", "factorTrace", "alSubtotal",
     "feesAndTaxes", "reconciliation"}

AuditDatas ==
    {[t |-> t, f |-> [k \in ExportFields |-> "absent"]] :
        t \in {"null", "undefined", "string"}}
    \cup {[t |-> "object", f |-> f] :
            f \in [ExportFields -> {"absent", "plain", "cyclic"}]}

\* x || {} on a field
OrEmpty(x) == IF x = "absent" THEN "plain" ELSE x

\* formatAuditDataForExport: the keys of the export data and what they hold
formatAuditDataForExport(auditData) ==
    IF auditData.t # "object"
    THEN [error |-> "plain", timestamp |-> "plain"]
    ELSE [policy |-> OrEmpty(auditData.f["policy"]),
          vehicles |-> OrEmpty(auditData.f["vehicles"]),
          drivers |-> OrEmpty(auditData.f["drivers"]),
          \* {program, alSubtotal, factorTrace}
          calculation |-> IF "cyclic" \in {auditData.f["factorTrace"],
                                           auditData.f["alSubtotal"]}
                          THEN "cyclic" ELSE "plain",
          feesAndTaxes |-> OrEmpty(auditData.f["feesAndTaxes"]),
          reconciliation |-> OrEmpty(auditData.f["reconciliation"])]

\* JSON.stringify(value, null, 2) followed by JSON.parse: a TypeError, or
\* the document with the keys of value
JSONstringify(value, exportVersion) ==
    IF \E k \in DOMAIN value : value[k] = "cyclic"
    THEN [threw |-> TRUE, keys |-> {}, exportVersion |-> "undefined"]
    ELSE [threw |-> FALSE, keys |-> DOMAIN value, exportVersion |-> exportVersion]

exportToJSON(auditData) ==
    LET exportData == formatAuditDataForExport(auditData)
        \* exportTimestamp, exportVersion and exportFormat added
        withMetadata == [k \in DOMAIN exportData
                              \cup {"exportTimestamp", "exportVersion", "exportFormat"} |->
                            IF k \in DOMAIN exportData THEN exportData[k] ELSE "plain"]
        json == JSONstringify(withMetadata, "4.21.0")
    IN  IF json.threw
        THEN JSONstringify([error |-> "plain"], "undefined")
        ELSE json

InitExport ==
    /\ call \in {[fn |-> "exportToJSON", auditData |-> a] : a \in AuditDatas}
    /\ ret = Pending
    /\ ApplicationAtLoad

ExportToJSON ==
    /\ ret = Pending
    /\ ret' = [status |-> "returned", json |-> exportToJSON(call.auditData)]
    /\ UNCHANGED <<call, appState, invoked, dom>>

SpecExport == InitExport /\ [][ExportToJSON]_vars

\* C19: exportToJSON never throws and returns a text that JSON.parse accepts
\* and whose parsed value has exportVersion '4.21.0', for every audit data.
C19_ExportAlwaysCarriesVersion ==
    (ret # Pending) =>
        /\ ~ret.json.threw
        /\ ret.json.exportVersion = "4.21.0"
        /\ "exportVersion" \in ret.json.keys

(***************************************************************************)
(* Further claims about OCR.                                               *)
(***************************************************************************)
\* the pages of the batch that were recognized
RecognizedResults ==
    {i \in 1..Len(ret.results) : call.pdf[call.pageNumbers[i]] \notin PageFailures}

\* C21: a recognized page needs review exactly when the confidence the
\* recognition engine reported is below 85: 84 needs review, 85 does not.
C21_NeedsReviewBelow85 ==
    \A i \in RecognizedResults :
        ret.results[i].needsReview <=> call.pdf[call.pageNumbers[i]].confidence < 85

\* a batch with a page of confidence 84 under review and one of 85 not
C21_Witness ==
    /\ ret.status = "returned"
    /\ \E i, j \in RecognizedResults :
          /\ ret.results[i].confidence = 84 /\ ret.results[i].needsReview
          /\ ret.results[j].confidence = 85 /\ ~ret.results[j].needsReview

(***************************************************************************)
(* Reference tables (ui.js: handleRaterUpload, handleTaxesUpload,          *)
(* updateLoadTablesButton, handleLoadTables, handleUsePreloaded).  The two *)
(* loaders are async: a run is started by a click and continues when its   *)
(* awaited ingestion or fetch settles, so runs interleave.  call.runs are  *)
(* the runs in flight, invoked the runs that ended.                        *)
(***************************************************************************)
MaxRuns == 2

\* a chosen workbook file; XLSX.read throws on one that is not readable
WorkbookFiles(kind) ==
    {[name |-> kind, readable |-> TRUE], [name |-> kind, readable |-> FALSE]}

\* a reference table of AppState: the part it holds and the run that wrote it
TableFrom(source, part) == [source |-> source, part |-> part]

ReferenceFields == {"cwTables", "ssTables", "attributeBands", "stateTaxRules"}

ReferenceTables(app) == [k \in ReferenceFields |-> app[k]]

updateLoadTablesButton_either(app) ==
    ~(app.raterFile # Null \/ app.taxesFile # Null)

\* updateLoadTablesButton: the value given to loadTablesBtn.disabled
updateLoadTablesButton(app) ==
    ~(app.raterFile # Null /\ app.taxesFile # Null)

InitTables ==
    /\ call = [fn |-> "tables", runs |-> {}, started |-> 0]
    /\ ret = Pending
    /\ ApplicationAtLoad

\* handleRaterUpload with a chosen file
HandleRaterUpload ==
    \E file \in WorkbookFiles("rater") :
        LET app == [appState EXCEPT !.raterFile = file]
        IN  /\ appState' = app
            /\ dom' = [dom EXCEPT !.loadTablesDisabled = updateLoadTablesButton(app)]
            /\ UNCHANGED <<call, ret, invoked>>

\* handleTaxesUpload with a chosen file
HandleTaxesUpload ==
    \E file \in WorkbookFiles("taxes") :
        LET app == [appState EXCEPT !.taxesFile = file]
        IN  /\ appState' = app
            /\ dom' = [dom EXCEPT !.loadTablesDisabled = updateLoadTablesButton(app)]
            /\ UNCHANGED <<call, ret, invoked>>

\* a run in flight: where it waits, the rater file it reads, and the
\* reference tables of AppState when it started
StartedRun(handler, pc) ==
    [id |-> call.started + 1, handler |-> handler, pc |-> pc,
     rater |-> appState.raterFile, before |-> ReferenceTables(appState)]

\* handleLoadTables up to its first await
HandleLoadTables ==
    /\ call.started < MaxRuns
    /\ appState.raterFile # Null /\ appState.taxesFile # Null
    /\ call' = [call EXCEPT !.runs = @ \cup {StartedRun("handleLoadTables", "ingestRaterWorkbook")},
                            !.started = @ + 1]
    /\ UNCHANGED <<ret, appState, invoked, dom>>

EndedRun(run, outcome, app) ==
    [id |-> run.id, handler |-> run.handler, outcome |-> outcome,
     before |-> run.before, after |-> ReferenceTables(app)]

\* handleLoadTables from the rater workbook's ingestion to the next await
RaterWorkbookIngested ==
    \E run \in call.runs :
        /\ run.pc = "ingestRaterWorkbook"
        /\ IF run.rater.readable
           THEN /\ appState' = [appState EXCEPT
                                   !.cwTables = TableFrom(run.id, "cw"),
                                   !.ssTables = TableFrom(run.id, "ss"),
                                   !.attributeBands = TableFrom(run.id, "bands")]
                /\ call' = [call EXCEPT !.runs = (@ \ {run}) \cup
                                            {[run EXCEPT !.pc = "ingestTaxFeeWorkbook"]}]
                /\ UNCHANGED invoked
           ELSE /\ call' = [call EXCEPT !.runs = @ \ {run}]
                /\ invoked' = Append(invoked, EndedRun(run, "failed", appState))
                /\ UNCHANGED appState
        /\ UNCHANGED <<ret, dom>>

\* handleLoadTables from the tax/fee workbook's ingestion to its end
TaxFeeWorkbookIngested ==
    \E run \in call.runs :
        /\ run.pc = "ingestTaxFeeWorkbook"
        /\ LET app == IF appState.taxesFile.readable
                      THEN [appState EXCEPT !.stateTaxRules = TableFrom(run.id, "taxes")]
                      ELSE appState
           IN  /\ appState' = app
               /\ invoked' = Append(invoked,
                      EndedRun(run, IF appState.taxesFile.readable THEN "ok" ELSE "failed", app))
        /\ call' = [call EXCEPT !.runs = @ \ {run}]
        /\ UNCHANGED <<ret, dom>>

\* handleUsePreloaded up to its await
HandleUsePreloaded ==
    /\ call.started < MaxRuns
    /\ call' = [call EXCEPT !.runs = @ \cup {StartedRun("handleUsePreloaded", "fetch")},
                            !.started = @ + 1]
    /\ UNCHANGED <<ret, appState, invoked, dom>>

\* handleUsePreloaded once the four fetches settled
PreloadedFetched ==
    \E run \in call.runs, fetched \in BOOLEAN :
        /\ run.pc = "fetch"
        /\ LET app == IF fetched
                      THEN [appState EXCEPT
                               !.cwTables = TableFrom(run.id, "cw"),
                               !.ssTables = TableFrom(run.id, "ss"),
                               !.attributeBands = TableFrom(run.id, "bands"),
                               !.stateTaxRules = TableFrom(run.id, "taxes")]
                      ELSE appState
           IN  /\ appState' = app
               /\ invoked' = Append(invoked,
                      EndedRun(run, IF fetched THEN "ok" ELSE "failed", app))
        /\ call' = [call EXCEPT !.runs = @ \ {run}]
        /\ UNCHANGED <<ret, dom>>

NextTables ==
    \/ HandleRaterUpload \/ HandleTaxesUpload
    \/ HandleLoadTables \/ RaterWorkbookIngested \/ TaxFeeWorkbookIngested
    \/ HandleUsePreloaded \/ PreloadedFetched

SpecTables == InitTables /\ [][NextTables]_vars

(***************************************************************************)
(* Claims about the reference tables.                                      *)
(***************************************************************************)
BothFilesChosen == appState.raterFile # Null /\ appState.taxesFile # Null

\* C22: after any sequence of rater-file and tax-file selections the Load
\* Tables button is enabled exactly when AppState holds both workbook files,
\* and no Load Tables run ingests anything while a file is missing.
C22_LoadTablesNeedsBothFiles ==
    /\ ~dom.loadTablesDisabled <=> BothFilesChosen
    /\ \A run \in call.runs : run.handler = "handleLoadTables" => BothFilesChosen
    /\ \A i \in 1..Len(invoked) :
          invoked[i].handler = "handleLoadTables" => BothFilesChosen

\* one file chosen and the button still disabled
C22_Witness ==
    /\ appState.raterFile # Null /\ appState.taxesFile = Null
    /\ dom.loadTablesDisabled

\* the runs that ended all succeeded and none is in flight
AllRunsCompleted ==
    /\ call.runs = {}
    /\ invoked # <<>>
    /\ \A i \in 1..Len(invoked) : invoked[i].outcome = "ok"

\* C26: once every Load Tables and Use Pre-loaded Tables run has completed
\* successfully, the four reference tables of AppState were written by one
\* and the same run.
C26_TablesComeFromOneRun ==
    AllRunsCompleted =>
        \E i \in 1..Len(invoked) :
            \A k \in ReferenceFields : appState[k].source = invoked[i].id

\* C27: a Load Tables run that fails leaves the four reference tables as they
\* were when the run started (stated for a run that no other run overlaps).
C27_FailedLoadReplacesNothing ==
    \A i \in 1..Len(invoked) :
        (/\ call.started = 1
         /\ invoked[i].handler = "handleLoadTables"
         /\ invoked[i].outcome = "failed")
        => invoked[i].after = invoked[i].before

(***************************************************************************)
(* Vehicle class normalisation (pdf-parse.js: normalizeVehicleClass).      *)
(***************************************************************************)
Digits == {"0", "1", "2", "3", "4", "5", "6", "7", "8", "9"}

\* the position of the digit captured by /(?:class\s*)?(\d)/ when the match
\* starts at position p of input, or 0 when there is no match at p
RECURSIVE DigitAfterSpaces(_, _)
DigitAfterSpaces(input, p) ==
    IF p > Len(input) THEN 0
    ELSE IF input[p] \in Digits THEN p
    ELSE IF input[p] = " " THEN DigitAfterSpaces(input, p + 1)
    ELSE 0

ClassDigitAt(input, p) ==
    IF p + 4 <= Len(input) /\ SubSeq(input, p, p + 4) = <<"c", "l", "a", "s", "s">>
       /\ DigitAfterSpaces(input, p + 5) # 0
    THEN DigitAfterSpaces(input, p + 5)
    ELSE IF input[p] \in Digits THEN p
    ELSE 0

\* input.match(/(?:class\s*)?(\d)/i): the captured digit of the leftmost
\* match, or <<>> when nothing matches
ClassDigitMatch(input) ==
    LET starts == {p \in 1..Len(input) : ClassDigitAt(input, p) # 0}
    IN  IF starts = {} THEN <<>>
        ELSE LET first == CHOOSE p \in starts : \A q \in starts : p <= q
             IN  <<input[ClassDigitAt(input, first)]>>

\* input.includes('class1')
IncludesClass1(input) ==
    \E p \in 1..Len(input) :
        p + 5 <= Len(input)
        /\ SubSeq(input, p, p + 5) = <<"c", "l", "a", "s", "s", "1">>

normalizeVehicleClass(classInput) ==
    IF classInput.t # "string" \/ classInput.s = <<>>
    THEN [t |-> "null", s |-> <<>>]
    ELSE LET input == toLowerCase(trim(classInput.s))
             match == ClassDigitMatch(input)
         IN  IF match # <<>> THEN StateString(match)
             ELSE IF IncludesClass1(input)
             THEN StateString(<<"C", "l", "a", "s", "s", "1">>)
             ELSE StateString(trim(classInput.s))

\* class texts as they are printed: a prefix and a suffix
ClassInputs ==
    {NoState} \cup
    {StateString(prefix \o suffix) :
        prefix \in {<<>>, <<"C", "l", "a", "s", "s">>, <<"c", "l", "a", "s", "s">>,
                    <<"C", "L", "A", "S", "S">>, <<"C", "l", "a", "s", "s", " ">>,
                    <<" ", "c", "l", "a", "s", "s", " ", " ">>, <<"T", "r", "a", "c">>,
                    <<"C", "l", "a", "s">>},
        suffix \in {<<>>, <<"1">>, <<"8">>, <<"6">>, <<"1", "8">>, <<"A">>,
                    <<" ", "8">>, <<"1", " ">>, <<"A", "1">>}}

InitClass ==
    /\ call \in {[fn |-> "normalizeVehicleClass", classInput |-> c] : c \in ClassInputs}
    /\ ret = Pending
    /\ ApplicationAtLoad

NormalizeVehicleClass ==
    /\ ret = Pending
    /\ ret' = [status |-> "returned", value |-> normalizeVehicleClass(call.classInput)]
    /\ UNCHANGED <<call, appState, invoked, dom>>

SpecClass == InitClass /\ [][NormalizeVehicleClass]_vars

\* C23: 'Class 8', 'class8' and '8' are normalised to '8'; 'Class1' and
\* 'Class 1' are normalised to 'Class1'.
C23_ClassEightAndClassOne ==
    (ret # Pending /\ call.classInput.t = "string") =>
        /\ call.classInput.s \in {<<"C", "l", "a", "s", "s", " ", "8">>,
                                  <<"c", "l", "a", "s", "s", "8">>, <<"8">>}
              => ret.value = StateString(<<"8">>)
        /\ call.classInput.s \in {<<"C", "l", "a", "s", "s", "1">>,
                                  <<"C", "l", "a", "s", "s", " ", "1">>}
              => ret.value = StateString(<<"C", "l", "a", "s", "s", "1">>)

(***************************************************************************)
(* Further claims about the Recalculate pipeline.                          *)
(***************************************************************************)
\* the step is a Recalculate run that got past the checks of AppState
RecalculateRan == invoked' # <<>> /\ appState'.currentPolicyIndex = appState.currentPolicyIndex

\* the state handleRecalculate rates the selected policy for
RatedState(app) ==
    LET policy == app.parsedPolicies[app.currentPolicyIndex + 1].policy
    IN  OrElse(policy.state, policy.addressState)

\* C25: in a Recalculate run the program is resolved for the state the policy
\* is then rated and taxed for; in particular a policy whose state is recorded
\* only in its address has its program resolved for that state.
C25_ProgramResolvedForRatedState ==
    [][RecalculateRan =>
        LET resolved == resolveProgram(RatedState(appState),
                                       appState.cwTables, appState.ssTables)
        IN  resolved.program # "null"
              => /\ "calculateALPremium" \in EnginesInvoked(invoked')
                 /\ RunSucceeded(invoked')
                       => appState'.factorTrace.program = resolved.program]_vars

\* the run ended in an error: the program was not resolved or rating failed
RunFailed(log) == Len(log) = 1 \/ RatingReportedErrors(log)

\* C28: a Recalculate run that fails leaves every field of AppState as it was
\* before the run, the limit recorded on the selected policy included.
C28_FailedRunChangesNothing ==
    [][(RecalculateRan /\ RunFailed(invoked')) => appState' = appState]_vars

(***************************************************************************)
(* A session on parsed policies (ui.js: handleParsePDF, the policy         *)
(* selector, handleRecalculate, the admitted toggle, handleExport).        *)
(***************************************************************************)
ResultFields == {"alSubtotal", "factorTrace", "feesAndTaxes", "reconciliation"}

ResultsOf(app) == [k \in ResultFields |-> app[k]]

MaxParses == 2

\* the documents of a session: a rated policy, one without vehicles and one
\* whose pdf_money carries a total
SessionPolicies ==
    {p \in ParsedPolicySet :
        /\ p.policy.state = StateString(StateAL)
        /\ p.pdf_money.printed_total_cents # Null
        /\ p.vehicles = <<>> => p.pdf_money.total = Undefined}

\* the application with the reference tables loaded and nothing parsed
InitSession ==
    /\ appState = [InitialAppState EXCEPT
                      !.cwTables = ProgramTables({StateAL}),
                      !.ssTables = ProgramTables({}),
                      !.attributeBands = [obj |-> FALSE, min |-> 0, max |-> 0,
                                          factor |-> Undefined],
                      !.stateTaxRules = [keys |-> {StateAL}]]
    /\ call = [fn |-> "session", parses |-> 0]
    /\ ret = Pending /\ invoked = <<>> /\ dom = DocumentAtLoad

\* handleParsePDF once every file is parsed
HandleParsePDF ==
    \E parsed \in UNION {[1..n -> SessionPolicies] : n \in 1..MaxPolicies} :
        /\ call.parses < MaxParses
        /\ call' = [call EXCEPT !.parses = @ + 1]
        /\ appState' = [appState EXCEPT !.parsedPolicies = parsed,
                                        !.currentPolicyIndex = 0]
        /\ dom' = [dom EXCEPT !.policySelector = Len(parsed) > 1]
        /\ UNCHANGED <<ret, invoked>>

\* a change of the admitted toggle
AdmittedToggle ==
    \E checked \in BOOLEAN :
        /\ Truthy(appState.alSubtotal)
        /\ appState' = calculateAndDisplayFees(appState, <<>>, checked).app
        /\ UNCHANGED <<call, ret, invoked, dom>>

\* handleExport: the audit data handed to the exporter
HandleExport ==
    /\ appState.currentPolicyIndex < Len(appState.parsedPolicies)
    /\ ret' = [status |-> "exported",
               policyData |-> appState.parsedPolicies[appState.currentPolicyIndex + 1],
               results |-> ResultsOf(appState)]
    /\ UNCHANGED <<call, appState, invoked, dom>>

NextSession ==
    \/ HandleParsePDF \/ SelectPolicy \/ HandleRecalculate
    \/ AdmittedToggle \/ HandleExport

SpecSession == InitSession /\ [][NextSession]_vars

(***************************************************************************)
(* Claims about a session.                                                 *)
(***************************************************************************)
\* results are those of a successful Recalculate run on policyData
DerivedFrom(policyData, results) ==
    \E limitValue \in {NoState, StateString(<<"1", "M">>)}, isAdmitted \in BOOLEAN :
        LET app == [appState EXCEPT
                       !.parsedPolicies = <<policyData>>, !.currentPolicyIndex = 0,
                       !.alSubtotal = Null, !.factorTrace = Null,
                       !.feesAndTaxes = Null, !.reconciliation = Null]
            run == handleRecalculate(app, limitValue, isAdmitted)
        IN  RunSucceeded(run.invoked) /\ ResultsOf(run.app) = results

MaxTabs == 7

\* the markup with n tabs: one tab selected, its panel the only one shown
TabsAtLoad(n, shown) ==
    [tabs |-> n, focus |-> -1,
     ariaSelected |-> [i \in 0..(n - 1) |-> i = shown],
     hidden |-> [i \in 0..(n - 1) |-> i # shown]]

activateTab_keepOthers(d, index) ==
    [d EXCEPT !.ariaSelected[index] = TRUE, !.hidden[index] = FALSE]

\* activateTab: deselect every tab and hide every panel, then select one
activateTab(d, index) ==
    [d EXCEPT !.ariaSelected = [i \in 0..(d.tabs - 1) |-> i = index],
              !.hidden = [i \in 0..(d.tabs - 1) |-> i # index]]

InitTabs ==
    /\ dom \in {TabsAtLoad(n, shown) : n \in 1..MaxTabs, shown \in {0}}
    /\ call = [fn |-> "initializeTabNavigation"]
    /\ ret = Pending
    /\ appState = InitialAppState /\ invoked = <<>>

\* a click on tab index: by the user (the tab takes the focus) or by
\* tab.click() from a handler
TabClick ==
    \E index \in 0..(dom.tabs - 1), byUser \in BOOLEAN :
        /\ dom' = activateTab([dom EXCEPT !.focus = IF byUser THEN index ELSE @], index)
        /\ UNCHANGED <<call, ret, appState, invoked>>

\* the index a key moves to from tab index
KeyTarget(key, index, n) ==
    CASE key = "ArrowRight" -> (index + 1) % n
      [] key = "ArrowLeft" -> (index - 1 + n) % n
      [] key = "Home" -> 0
      [] key = "End" -> n - 1
      [] OTHER -> index

\* a keydown on the tab that has the focus
TabKeydown ==
    \E key \in {"ArrowRight", "ArrowLeft", "Home", "End", "Enter"} :
        /\ dom.focus >= 0
        /\ LET index == dom.focus
               newIndex == KeyTarget(key, index, dom.tabs)
           IN  /\ dom' = IF newIndex # index
                         THEN activateTab([dom EXCEPT !.focus = newIndex], newIndex)
                         ELSE dom
               /\ ret' = [key |-> key, defaultPrevented |-> key # "Enter"]
        /\ UNCHANGED <<call, appState, invoked>>

SpecTabs == InitTabs /\ [][TabClick \/ TabKeydown]_vars

\* C29: after any sequence of tab clicks and ArrowLeft, ArrowRight, Home and
\* End key presses exactly one tab has aria-selected true, its panel is the
\* only panel not hidden, and every other tab is unselected with its panel
\* hidden.
C29_OneTabSelectedOnePanelShown ==
    \E selected \in 0..(dom.tabs - 1) :
        \A i \in 0..(dom.tabs - 1) :
            /\ dom.ariaSelected[i] <=> i = selected
            /\ dom.hidden[i] <=> i # selected

\* ArrowLeft on the first tab wrapped around to the last of seven
C29_Witness ==
    /\ dom.tabs = 7
    /\ ret # Pending /\ ret.key = "ArrowLeft"
    /\ dom.focus = 6 /\ dom.ariaSelected[6] /\ ~dom.hidden[6]
    /\ ~dom.ariaSelected[0] /\ dom.hidden[0]

(***************************************************************************)
(* Debounce of the broker-fee input (ui.js: debounce, the input listener). *)
(* dom holds the clock in ms, the deadlines of the timers that are set and *)
(* the input events so far; invoked lists the runs of the debounced        *)
(* function.  A timer never fires before its deadline and may fire late.   *)
(***************************************************************************)
DebounceWait == 500

MaxTime == 1500

MaxInputs == 3

ClockSteps == {100, 400}

debounce_noClear(d, wait) ==
    [d EXCEPT !.timeouts = @ \cup {d.now + wait},
              !.inputs = @ + 1, !.lastInputAt = d.now]

\* executedFunction: clearTimeout(timeout); timeout = setTimeout(later, wait)
debounce(d, wait) ==
    [d EXCEPT !.timeouts = {d.now + wait},
              !.inputs = @ + 1, !.lastInputAt = d.now]

InitDebounce ==
    /\ dom = [now |-> 0, timeouts |-> {}, inputs |-> 0, lastInputAt |-> 0]
    /\ call = [fn |-> "debounce", wait |-> DebounceWait]
    /\ ret = Pending
    /\ appState = InitialAppState /\ invoked = <<>>

\* time passes
ClockAdvances ==
    \E step \in ClockSteps :
        /\ dom.now + step <= MaxTime
        /\ dom' = [dom EXCEPT !.now = @ + step]
        /\ UNCHANGED <<call, ret, appState, invoked>>

\* an input event on the broker-fee field
BrokerFeeInput ==
    /\ dom.inputs < MaxInputs
    /\ dom' = debounce(dom, call.wait)
    /\ UNCHANGED <<call, ret, appState, invoked>>

\* a timer that is due fires: later() runs the debounced function, which
\* recomputes the fees when AppState holds a subtotal
TimerFires ==
    \E deadline \in dom.timeouts :
        /\ dom.now >= deadline
        /\ dom' = [dom EXCEPT !.timeouts = @ \ {deadline}]
        /\ invoked' = Append(invoked, [at |-> dom.now, inputs |-> dom.inputs,
                                       lastInputAt |-> dom.lastInputAt])
        /\ appState' = IF Truthy(appState.alSubtotal)
                       THEN calculateAndDisplayFees(appState, <<>>, FALSE).app
                       ELSE appState
        /\ UNCHANGED <<call, ret>>

SpecDebounce == InitDebounce /\ [][ClockAdvances \/ BrokerFeeInput \/ TimerFires]_vars

\* C30: the debounced recalculation runs at most once after the last input
\* event of a burst, no earlier than 500 ms after that event, and so never
\* while an input event less than 500 ms old is pending.
C30_RunsOnceAfterQuietPeriod ==
    /\ \A i \in 1..Len(invoked) : invoked[i].at - invoked[i].lastInputAt >= 500
    /\ \A i, j \in 1..Len(invoked) :
          invoked[i].inputs = invoked[j].inputs => i = j

\* a burst of three input events less than 500 ms apart, then one run
C30_Witness ==
    /\ dom.inputs = 3 /\ dom.lastInputAt = 200
    /\ Len(invoked) = 1 /\ invoked[1].inputs = 3

====
